---- MODULE Spec2Model ----
(***************************************************************************)
(* ImpactX: element transfer maps (Aperture, Kicker, DipEdge, ThinDipole,  *)
(* ShortRF, ExactSbend, CFbend), the reference particle they co-evolve,    *)
(* and the slice loop that drives them over the particle container.        *)
(*                                                                         *)
(* amrex::ParticleReal values are modelled exactly.  A number is a triple  *)
(* <<n, m, d>> standing for (n + m*pi)/d with d > 0 and gcd(n, m, d) = 1,  *)
(* so that rational lengths, angles given in degrees (times pi/180) and    *)
(* arc lengths such as pi/2 are all values of the model, and sin, cos,     *)
(* sqrt and asin are evaluated exactly wherever their result is again such *)
(* a number.  A triple with d = 0 is no number of the model: <<0,0,0>> is  *)
(* the non-finite result of a division by zero, <<1,0,0>> a result outside *)
(* the representable set, which includes every number whose integers do    *)
(* not fit 32 bits.  Rounding of IEEE arithmetic is not modelled.          *)
(***************************************************************************)
EXTENDS Integers, Sequences, FiniteSets, TLC

\* number of macro-particles in the container
NPart == 2
\* number of lattice elements the driver tracks through
MaxElems == 2

---------------------------------------------------------------------------
\* exact arithmetic on amrex::ParticleReal

RECURSIVE GCD(_, _)
GCD(a, b) == IF b = 0 THEN a ELSE GCD(b, a % b)

Abs(n) == IF n < 0 THEN -n ELSE n

NonFinite == <<0, 0, 0>>

NotRepresentable == <<1, 0, 0>>

Bad(a) == a[3] = 0

Worst(a, b) ==
    IF a = NotRepresentable \/ b = NotRepresentable THEN NotRepresentable
    ELSE NonFinite

\* x * y fits 31 bits, so that a sum of two such products fits 32
Fits(x, y) == x = 0 \/ Abs(y) <= 1073741823 \div Abs(x)

\* (n + m*pi)/d in lowest terms; with a multiple of pi only as far as Sign
\* decides its sign
Lowest(n, m, d, g) ==
    IF Abs(m) \div g >= 33215 THEN NotRepresentable
    ELSE <<n \div g, m \div g, d \div g>>

Norm(n, m, d) ==
    IF d < 0
    THEN Lowest(-n, -m, -d, GCD(GCD(Abs(n), Abs(m)), Abs(d)))
    ELSE Lowest(n, m, d, GCD(GCD(Abs(n), Abs(m)), Abs(d)))

\* the rational n/d
Q(n, d) == Norm(n, 0, d)

\* the multiple (n/d)*pi of pi
PiQ(n, d) == Norm(0, n, d)

Zero == <<0, 0, 1>>

One == <<1, 0, 1>>

IsRat(a) == ~Bad(a) /\ a[2] = 0

Neg(a) == IF Bad(a) THEN a ELSE <<-a[1], -a[2], a[3]>>

Add(a, b) ==
    IF Bad(a) \/ Bad(b) THEN Worst(a, b)
    ELSE IF ~(Fits(a[1], b[3]) /\ Fits(b[1], a[3]) /\ Fits(a[2], b[3])
              /\ Fits(b[2], a[3]) /\ Fits(a[3], b[3]))
         THEN NotRepresentable
    ELSE Norm(a[1] * b[3] + b[1] * a[3], a[2] * b[3] + b[2] * a[3], a[3] * b[3])

Sub(a, b) == Add(a, Neg(b))

Mul(a, b) ==
    IF Bad(a) \/ Bad(b) THEN Worst(a, b)
    ELSE IF a[2] # 0 /\ b[2] # 0 THEN NotRepresentable
    ELSE IF ~(Fits(a[1], b[1]) /\ Fits(a[1], b[2]) /\ Fits(a[2], b[1])
              /\ Fits(a[3], b[3]))
         THEN NotRepresentable
    ELSE Norm(a[1] * b[1], a[1] * b[2] + a[2] * b[1], a[3] * b[3])

Div(a, b) ==
    IF Bad(a) \/ Bad(b) THEN Worst(a, b)
    ELSE IF b[1] = 0 /\ b[2] = 0 THEN NonFinite
    ELSE IF ~(Fits(a[1], b[3]) /\ Fits(a[2], b[3]) /\ Fits(a[3], b[1])
              /\ Fits(a[3], b[2]))
         THEN NotRepresentable
    ELSE IF b[2] = 0 THEN Norm(a[1] * b[3], a[2] * b[3], a[3] * b[1])
    ELSE IF b[1] = 0 /\ a[1] = 0 THEN Norm(a[2] * b[3], 0, a[3] * b[2])
    ELSE NotRepresentable

Sq(a) == Mul(a, a)

\* pi > k/m for 0 < m < 33215: 3 + 4687/33102 < pi < 3 + 16/113 are
\* neighbours in the Farey sequence, so no fraction of denominator m lies
\* between them
PiAbove(k, m) ==
    LET q == k \div m
    IN  q < 3 \/ (q = 3 /\ (k % m) * 33102 <= 4687 * m)

\* sign of (n + m*pi)/d
Sign(a) ==
    LET n == a[1]
        m == a[2]
    IN  IF m = 0 THEN (IF n > 0 THEN 1 ELSE IF n < 0 THEN -1 ELSE 0)
        ELSE IF m > 0 THEN (IF PiAbove(-n, m) THEN 1 ELSE -1)
        ELSE (IF PiAbove(n, -m) THEN -1 ELSE 1)

\* a > b; false when either side is not a finite number, as for a NaN
Gt(a, b) == ~Bad(a) /\ ~Bad(b) /\ Sign(Sub(a, b)) = 1

Geq(a, b) == ~Bad(a) /\ ~Bad(b) /\ Sign(Sub(a, b)) >= 0

\* std::abs
FAbs(a) == IF Bad(a) THEN a ELSE IF Sign(a) < 0 THEN Neg(a) ELSE a

\* the largest r in lo..hi with r*r <= k (lo*lo <= k), by bisection
RECURSIVE RootIn(_, _, _)
RootIn(k, lo, hi) ==
    IF lo >= hi THEN lo
    ELSE LET mid == (lo + hi + 1) \div 2
         IN  IF mid * mid <= k THEN RootIn(k, mid, hi) ELSE RootIn(k, lo, mid - 1)

\* floor of the square root of k >= 0; 46340 is the largest root of a 32-bit square
Root(k) == RootIn(k, 0, IF k < 46340 THEN k ELSE 46340)

\* rn/rd if it is the square root of the rational a
RootOf(a, rn, rd) ==
    IF rn * rn = a[1] /\ rd * rd = a[3] THEN <<rn, 0, rd>> ELSE NotRepresentable

\* sqrt: exact on squares of rationals, NaN on negatives
Sqrt(a) ==
    IF Bad(a) THEN a
    ELSE IF Sign(a) < 0 THEN NonFinite
    ELSE IF a[2] # 0 THEN NotRepresentable
    ELSE RootOf(a, Root(a[1]), Root(a[3]))

\* an angle k*(pi/12) as the residue k mod 24, or -1
Twelfth(a) ==
    IF ~Bad(a) /\ a[1] = 0 /\ 12 % a[3] = 0
    THEN (a[2] * (12 \div a[3])) % 24
    ELSE -1

\* cos(k*pi/12) where it is rational
CosTwelfth(k) ==
    IF k = 0 THEN One
    ELSE IF k \in {4, 20} THEN <<1, 0, 2>>
    ELSE IF k \in {6, 18} THEN Zero
    ELSE IF k \in {8, 16} THEN <<-1, 0, 2>>
    ELSE IF k = 12 THEN <<-1, 0, 1>>
    ELSE NotRepresentable

Cos(a) == IF Bad(a) THEN a ELSE CosTwelfth(Twelfth(a))

\* sin(k*pi/12) where it is rational
SinTwelfth(k) ==
    IF k \in {0, 12} THEN Zero
    ELSE IF k \in {2, 10} THEN <<1, 0, 2>>
    ELSE IF k = 6 THEN One
    ELSE IF k \in {14, 22} THEN <<-1, 0, 2>>
    ELSE IF k = 18 THEN <<-1, 0, 1>>
    ELSE NotRepresentable

Sin(a) == IF Bad(a) THEN a ELSE SinTwelfth(Twelfth(a))

Asin(a) ==
    IF Bad(a) THEN a
    ELSE IF a = Zero THEN Zero
    ELSE IF a = One THEN <<0, 1, 2>>
    ELSE IF a = <<-1, 0, 1>> THEN <<0, -1, 2>>
    ELSE IF a = <<1, 0, 2>> THEN <<0, 1, 6>>
    ELSE IF a = <<-1, 0, 2>> THEN <<0, -1, 6>>
    ELSE IF a[2] # 0 THEN NotRepresentable
    ELSE IF Abs(a[1]) > a[3] THEN NonFinite
    ELSE NotRepresentable

---------------------------------------------------------------------------
\* reference particle

\* ablastr::constant::SI::c, in m/s
SpeedOfLight == 299792458

\* slice count of the sliced thick elements in the lattices explored; the others
\* have one slice (examples/chicane/input_chicane.in: lattice.nslice = 1)
MaxSlice == 3

\* RefPart::beta_gamma: sqrt(gamma^2 - 1) with gamma = -pt
beta_gamma(r) == Sqrt(Sub(Sq(Neg(r.pt)), One))

\* RefPart::beta: beta*gamma / gamma
beta(r) == Div(beta_gamma(r), Neg(r.pt))

\* RefPart::rigidity_Tm: momentum over charge (mass in units of charge * T * m / c)
rigidity_Tm(r) == Div(Mul(r.mass, beta_gamma(r)), r.charge)

RefFields == {"x", "y", "z", "t", "px", "py", "pz", "pt", "s", "mass", "charge"}

\* no member of the record is outside the numbers of the model
RefRepresentable(r) == \A f \in RefFields : ~Bad(r[f])

\* a reference particle of total energy gamma (in units of the rest energy) at
\* the start of the lattice, moving along z
RefInit(gamma, py0) ==
    [x |-> Zero, y |-> Zero, z |-> Zero, t |-> Zero,
     px |-> Zero, py |-> py0, pz |-> Sqrt(Sub(Sq(gamma), One)), pt |-> Neg(gamma),
     s |-> Zero, mass |-> One, charge |-> One]

---------------------------------------------------------------------------
\* lattice elements

ThickKinds == {"ExactSbend", "CFbend"}

\* Thick::nslice for a thick element, 1 for a thin one
nslice(e) == IF e.kind \in ThickKinds THEN e.nslice ELSE 1

\* ExactSbend::degree2rad
degree2rad == PiQ(1, 180)

\* ExactSbend::m_phi, set by the constructor from the angle in degrees
m_phi(e) == Mul(e.phi, degree2rad)

\* apertures whose boundary passes through particles of the initial beams
Apertures ==
    { [kind |-> "Aperture", xmax |-> xm, ymax |-> One, shape |-> sh] :
        xm \in {Q(1, 3), Q(4, 9), Q(1, 5)}, sh \in {"rectangular", "elliptical"} }

Kickers ==
    { [kind |-> "Kicker", xkick |-> k[1], ykick |-> k[2], unit |-> u] :
        k \in {<<Zero, Zero>>, <<Q(1, 10), Q(-1, 5)>>}, u \in {"dimensionless", "Tm"} }

\* pole-face angles 0 with a gap, and pi and pi/4 with the zero gap of
\* examples/chicane/input_chicane.in (dipedge1.g = 0.0)
DipEdges ==
    { [kind |-> "DipEdge", psi |-> pg[1], rc |-> Q(2, 1), g |-> pg[2], K2 |-> Q(1, 2)] :
        pg \in {<<Zero, Q(1, 10)>>, <<PiQ(1, 1), Zero>>, <<PiQ(1, 4), Zero>>} }

ThinDipoles ==
    { [kind |-> "ThinDipole", theta |-> Q(90, 1), rc |-> One] }

\* cavities at c/4 Hz: accelerating on crest, at 60 degrees, decelerating, and
\* at the zero crossing
ShortRFs ==
    { [kind |-> "ShortRF", V |-> vp[1], freq |-> Q(149896229, 2), phase |-> vp[2]] :
        vp \in {<<Q(5, 12), Zero>>, <<Q(5, 6), Q(60, 1)>>,
                <<Q(5, 12), Q(180, 1)>>, <<Q(1, 3), Q(-90, 1)>>} }

\* sector bends of n quarter turns in n slices and their negative-length
\* inverses (examples/chicane/input_chicane.in: ds = -1.570796326794897,
\* phi = -90): on a circle of radius 1 (B = 0, ds = n*pi/2), and of length 1 in
\* a field of 3/4 T
ExactSbends ==
    { [kind |-> "ExactSbend", ds |-> IF B = Zero THEN PiQ(sg * n, 2) ELSE Q(sg, 1),
       phi |-> Q(sg * 90 * n, 1), B |-> B, nslice |-> n] :
        n \in {1, MaxSlice}, sg \in {1, -1}, B \in {Zero, Q(3, 4)} }

\* combined-function bends with both planes focusing: rc = 1, k = -9/25, so
\* that omegax = 4/5 and omegay = 3/5, in n slices of length 5*pi/2
CFbends ==
    { [kind |-> "CFbend", ds |-> PiQ(sg * 5 * n, 2), rc |-> One, k |-> Q(-9, 25),
       nslice |-> n] :
        n \in {1, MaxSlice}, sg \in {1, -1} }

\* combined-function bends of one slice at the zeros of the focusing strengths:
\* k = 0, a pure sector bend with gy = -k = 0, and k = -1/rc^2 with gx = 0
DegenerateCFbends ==
    { [kind |-> "CFbend", ds |-> PiQ(5, 2), rc |-> One, k |-> k, nslice |-> 1] :
        k \in {Zero, Q(-1, 1)} }

Elements ==
    Apertures \cup Kickers \cup DipEdges \cup ThinDipoles \cup ShortRFs
        \cup ExactSbends \cup CFbends \cup DegenerateCFbends

---------------------------------------------------------------------------
\* reference-particle maps

\* Thin::operator()(RefPart &): a thin element does not move the reference
Thin_ref(e, r) == r

\* ExactSbend::operator()(RefPart &): advance position, momentum and path length
ExactSbend_ref_update(r, slice_ds, theta, B, px, pz) ==
    [r EXCEPT !.px = px,
              !.py = r.py,
              !.pz = pz,
              !.pt = r.pt,
              !.x = Add(r.x, Div(Sub(pz, r.pz), B)),
              !.y = Add(r.y, Mul(Div(theta, B), r.py)),
              !.z = Sub(r.z, Div(Sub(px, r.px), B)),
              !.t = Sub(r.t, Mul(Div(theta, B), r.pt)),
              !.s = Add(r.s, slice_ds)]

\* ExactSbend::operator()(RefPart &): the rotated px and pz
ExactSbend_ref_rotate(r, slice_ds, theta, B, sin_theta, cos_theta) ==
    ExactSbend_ref_update(r, slice_ds, theta, B,
        Sub(Mul(r.px, cos_theta), Mul(r.pz, sin_theta)),
        Add(Mul(r.pz, cos_theta), Mul(r.px, sin_theta)))

\* ExactSbend::operator()(RefPart &): B, sin_theta and cos_theta
ExactSbend_ref_slice(r, slice_ds, theta, rc) ==
    ExactSbend_ref_rotate(r, slice_ds, theta, Div(beta_gamma(r), rc), Sin(theta), Cos(theta))

\* ExactSbend::operator()(RefPart &) advancing s by the whole length m_ds
ExactSbend_ref_whole_length(e, r) ==
    ExactSbend_ref_slice(r, e.ds, Div(m_phi(e), Q(nslice(e), 1)),
        IF e.B # Zero THEN Div(rigidity_Tm(r), e.B) ELSE Div(e.ds, m_phi(e)))

\* ExactSbend::operator()(RefPart &) rotating py with px
ExactSbend_ref_py_rotated(e, r) ==
    [ExactSbend_ref_slice(r, Div(e.ds, Q(nslice(e), 1)), Div(m_phi(e), Q(nslice(e), 1)),
        IF e.B # Zero THEN Div(rigidity_Tm(r), e.B) ELSE Div(e.ds, m_phi(e)))
     EXCEPT !.py = Mul(r.py, Cos(Div(m_phi(e), Q(nslice(e), 1))))]

\* ExactSbend::operator()(RefPart &): slice_ds, theta and rc, then the steps above
ExactSbend_ref(e, r) ==
    ExactSbend_ref_slice(r, Div(e.ds, Q(nslice(e), 1)), Div(m_phi(e), Q(nslice(e), 1)),
        IF e.B # Zero THEN Div(rigidity_Tm(r), e.B) ELSE Div(e.ds, m_phi(e)))

\* CFbend::operator()(RefPart &): advance position, momentum and path length
CFbend_ref_update(r, slice_ds, theta, B, px, pz) ==
    [r EXCEPT !.px = px,
              !.py = r.py,
              !.pz = pz,
              !.pt = r.pt,
              !.x = Add(r.x, Div(Sub(pz, r.pz), B)),
              !.y = Add(r.y, Mul(Div(theta, B), r.py)),
              !.z = Sub(r.z, Div(Sub(px, r.px), B)),
              !.t = Sub(r.t, Mul(Div(theta, B), r.pt)),
              !.s = Add(r.s, slice_ds)]

\* CFbend::operator()(RefPart &): the rotated px and pz
CFbend_ref_rotate(r, slice_ds, theta, B, sin_theta, cos_theta) ==
    CFbend_ref_update(r, slice_ds, theta, B,
        Sub(Mul(r.px, cos_theta), Mul(r.pz, sin_theta)),
        Add(Mul(r.pz, cos_theta), Mul(r.px, sin_theta)))

\* CFbend::operator()(RefPart &): B, sin_theta and cos_theta
CFbend_ref_angle(e, r, slice_ds, theta) ==
    CFbend_ref_rotate(r, slice_ds, theta, Div(Sqrt(Sub(Sq(r.pt), One)), e.rc),
        Sin(theta), Cos(theta))

\* CFbend::operator()(RefPart &): theta
CFbend_ref_slice(e, r, slice_ds) == CFbend_ref_angle(e, r, slice_ds, Div(slice_ds, e.rc))

\* CFbend::operator()(RefPart &) advancing s by the magnitude of the slice length
CFbend_ref_abs_length(e, r) ==
    [CFbend_ref_slice(e, r, Div(e.ds, Q(nslice(e), 1)))
     EXCEPT !.s = Add(r.s, FAbs(Div(e.ds, Q(nslice(e), 1))))]

\* CFbend::operator()(RefPart &): slice_ds, then the steps above
CFbend_ref(e, r) == CFbend_ref_slice(e, r, Div(e.ds, Q(nslice(e), 1)))

\* ShortRF::operator()(RefPart &): the new energy and the rescaled momentum
ShortRF_ref_scale(r, ptf, bgi, bgf) ==
    [r EXCEPT !.pt = ptf,
              !.x = r.x,
              !.y = r.y,
              !.z = r.z,
              !.t = r.t,
              !.px = Div(Mul(r.px, bgf), bgi),
              !.py = Div(Mul(r.py, bgf), bgi),
              !.pz = Div(Mul(r.pz, bgf), bgi)]

\* ShortRF::operator()(RefPart &): bgi and bgf
ShortRF_ref_kick(r, ptf) ==
    ShortRF_ref_scale(r, ptf, Sqrt(Sub(Sq(r.pt), One)), Sqrt(Sub(Sq(ptf), One)))

\* ShortRF::operator()(RefPart &) with the sign of the energy kick reversed
ShortRF_ref_sign(e, r) ==
    ShortRF_ref_kick(r, Add(r.pt, Mul(e.V, Cos(Mul(e.phase, degree2rad)))))

\* ShortRF::operator()(RefPart &): phi and the new pt, then the steps above
ShortRF_ref(e, r) ==
    ShortRF_ref_kick(r, Sub(r.pt, Mul(e.V, Cos(Mul(e.phase, degree2rad)))))

\* the reference map of element e: its own operator()(RefPart &), or Thin's
RefMap(e, r) ==
    CASE e.kind = "ExactSbend" -> ExactSbend_ref(e, r)
      [] e.kind = "CFbend" -> CFbend_ref(e, r)
      [] e.kind = "ShortRF" -> ShortRF_ref(e, r)
      [] OTHER -> Thin_ref(e, r)

---------------------------------------------------------------------------
\* the state of the beam and of the loop that tracks it

VARIABLES
    refpart,    \* ImpactXParticleContainer::m_refpart
    pc,         \* the particles of the container, by index
    elem,       \* the lattice element being tracked
    slice,      \* slices of elem completed
    phase,      \* "idle", "ref" (reference map due) or "push" (particle maps due)
    todo,       \* particles the current slice's particle map has not reached yet
    nelems,     \* lattice elements begun
    id0,        \* the id each particle was created with
    last,       \* the last step taken, with the state it started from
    refElem,    \* the reference particle when elem began
    refAdv,     \* the reference particle as the current slice's reference map left it
    refSeen,    \* the reference particle each particle map of the slice was given
    refWrites,  \* reference-map applications in the current slice
    pcSlice,    \* the particles as the current slice found them
    pcElem,     \* the particles as elem found them
    prev,       \* the sector bend tracked just before elem, if it was one, with
                \* the particles and the reference particle as it found them
    grids,              \* the grids exist (AmrCore::InitFromScratch was made)
    m_particle_shape,   \* std::optional<int>: <<>> or <<order>>
    m_particles_lost,   \* the registered lost-particle container, or nullptr
    lostpc,             \* the records of each lost-particle container
    aborted,            \* a fatal error ended the run
    appended,           \* number of records AddNParticles created
    sinkPassed,         \* the last argument of SetLostParticleContainer
    rho                 \* the charge grid handed to DepositCharge, by node

\* the container's configuration and the lost-particle containers
cvars == <<grids, m_particle_shape, m_particles_lost, lostpc, aborted, appended,
           sinkPassed, rho>>

vars == <<refpart, pc, elem, slice, phase, todo, nelems, id0, last, refElem,
          refAdv, refSeen, refWrites, pcSlice, pcElem, prev, grids,
          m_particle_shape, m_particles_lost, lostpc, aborted, appended, sinkPassed,
          rho>>

---------------------------------------------------------------------------
\* particle maps: operator()(PType & p, px, py, pt, RefPart const & refpart)
\* a particle p is its AoS data (x, y, t, id) and its SoA momenta (px, py, pt)

PartFields == {"x", "y", "t", "px", "py", "pt"}

PartRepresentable(p) == \A f \in PartFields : ~Bad(p[f])

Pow3(a) == Mul(Mul(a, a), a)

\* tan(k*pi/12) where it is rational; it has a pole where cos is 0
TanTwelfth(k) ==
    IF k \in {0, 12} THEN Zero
    ELSE IF k \in {3, 15} THEN One
    ELSE IF k \in {9, 21} THEN <<-1, 0, 1>>
    ELSE IF k \in {6, 18} THEN NonFinite
    ELSE NotRepresentable

Tan(a) == IF Bad(a) THEN a ELSE TanTwelfth(Twelfth(a))

\* a * b for a real number a that need not be a number of the model: 0 when b
\* is 0
FiniteTimes(a, b) == IF a = NotRepresentable /\ b = Zero THEN Zero ELSE Mul(a, b)

\* Aperture::operator() with >= for >: a particle on the boundary is lost
Aperture_map_inclusive(e, p, r) ==
    LET id == p.id
        u == Div(p.x, e.xmax)
        v == Div(p.y, e.ymax)
    IN  IF e.shape = "rectangular"
        THEN (IF Geq(Sq(u), One) \/ Geq(Sq(v), One) THEN [p EXCEPT !.id = -id] ELSE p)
        ELSE (IF Geq(Add(Sq(u), Sq(v)), One) THEN [p EXCEPT !.id = -id] ELSE p)

\* Aperture::operator() marking a lost particle with the id -1
Aperture_map_minus_one(e, p, r) ==
    LET u == Div(p.x, e.xmax)
        v == Div(p.y, e.ymax)
    IN  IF e.shape = "rectangular"
        THEN (IF Gt(Sq(u), One) \/ Gt(Sq(v), One) THEN [p EXCEPT !.id = -1] ELSE p)
        ELSE (IF Gt(Add(Sq(u), Sq(v)), One) THEN [p EXCEPT !.id = -1] ELSE p)

\* Aperture::operator() stopping the particle it marks lost
Aperture_map_stopping(e, p, r) ==
    LET id == p.id
        u == Div(p.x, e.xmax)
        v == Div(p.y, e.ymax)
        lost == [p EXCEPT !.id = -id, !.px = Zero, !.py = Zero]
    IN  IF e.shape = "rectangular"
        THEN (IF Gt(Sq(u), One) \/ Gt(Sq(v), One) THEN lost ELSE p)
        ELSE (IF Gt(Add(Sq(u), Sq(v)), One) THEN lost ELSE p)

\* Aperture::operator()
Aperture_map(e, p, r) ==
    LET id == p.id
        u == Div(p.x, e.xmax)
        v == Div(p.y, e.ymax)
    IN  IF e.shape = "rectangular"
        THEN (IF Gt(Sq(u), One) \/ Gt(Sq(v), One) THEN [p EXCEPT !.id = -id] ELSE p)
        ELSE (IF Gt(Add(Sq(u), Sq(v)), One) THEN [p EXCEPT !.id = -id] ELSE p)

\* the comparisons of Aperture::operator() are between numbers of the model
Aperture_defined(e, p) ==
    LET u == Div(p.x, e.xmax)
        v == Div(p.y, e.ymax)
    IN  IF e.shape = "rectangular"
        THEN ~Bad(Sq(u)) /\ ~Bad(Sq(v))
        ELSE ~Bad(Add(Sq(u), Sq(v)))

\* Kicker::operator() assigning the kick instead of adding it
Kicker_map_assign(e, p, r) ==
    LET dpx == IF e.unit = "Tm" THEN Div(e.xkick, rigidity_Tm(r)) ELSE e.xkick
        dpy == IF e.unit = "Tm" THEN Div(e.ykick, rigidity_Tm(r)) ELSE e.ykick
    IN  [p EXCEPT !.px = dpx, !.py = dpy]

\* Kicker::operator() multiplying by the rigidity instead of dividing
Kicker_map_times_rigidity(e, p, r) ==
    LET dpx == IF e.unit = "Tm" THEN Mul(e.xkick, rigidity_Tm(r)) ELSE e.xkick
        dpy == IF e.unit = "Tm" THEN Mul(e.ykick, rigidity_Tm(r)) ELSE e.ykick
    IN  [p EXCEPT !.px = Add(p.px, dpx), !.py = Add(p.py, dpy)]

\* Kicker::operator() adding the kick to the momenta of the first particle of
\* the container instead of the particle's own
Kicker_map_first_particle(e, p, r) ==
    LET dpx == IF e.unit = "Tm" THEN Div(e.xkick, rigidity_Tm(r)) ELSE e.xkick
        dpy == IF e.unit = "Tm" THEN Div(e.ykick, rigidity_Tm(r)) ELSE e.ykick
    IN  [p EXCEPT !.px = Add(pc[1].px, dpx), !.py = Add(pc[1].py, dpy)]

\* Kicker::operator()
Kicker_map(e, p, r) ==
    LET dpx == IF e.unit = "Tm" THEN Div(e.xkick, rigidity_Tm(r)) ELSE e.xkick
        dpy == IF e.unit = "Tm" THEN Div(e.ykick, rigidity_Tm(r)) ELSE e.ykick
    IN  [p EXCEPT !.x = p.x,
                  !.px = Add(p.px, dpx),
                  !.y = p.y,
                  !.py = Add(p.py, dpy),
                  !.t = p.t,
                  !.pt = p.pt]

\* DipEdge::operator(): apply edge focusing
DipEdge_kick(p, R21, R43) ==
    [p EXCEPT !.px = Add(p.px, Mul(R21, p.x)),
              !.py = Add(p.py, Mul(R43, p.y))]

\* DipEdge::operator(): vf, the first-order effect of a nonzero gap.
\* (1 + sin^2)/cos^3 is a real number unless cos(psi) = 0, where the division
\* by Zero makes it NonFinite
DipEdge_fringe(e) ==
    FiniteTimes(Div(Add(One, Sq(Sin(e.psi))), Pow3(Cos(e.psi))),
                Div(Mul(e.g, e.K2), Sq(e.rc)))

\* DipEdge::operator(): R43 = -R21 + vf
DipEdge_focus(e, p, R21) == DipEdge_kick(p, R21, Add(Neg(R21), DipEdge_fringe(e)))

\* DipEdge::operator() with the fringe term not scaled by the gap m_g
DipEdge_map_gap_ignored(e, p, r) ==
    DipEdge_kick(p, Div(Tan(e.psi), e.rc),
        Add(Neg(Div(Tan(e.psi), e.rc)),
            Mul(Div(Add(One, Sq(Sin(e.psi))), Pow3(Cos(e.psi))),
                Div(e.K2, Sq(e.rc)))))

\* DipEdge::operator() advancing x by px as over a length
DipEdge_map_advancing(e, p, r) ==
    [DipEdge_focus(e, p, Div(Tan(e.psi), e.rc)) EXCEPT !.x = Add(p.x, p.px)]

\* DipEdge::operator(): R21, then the steps above
DipEdge_map(e, p, r) == DipEdge_focus(e, p, Div(Tan(e.psi), e.rc))

\* ThinDipole::operator() changing the energy with the path length
ThinDipole_update_energy(p, beta_ref, f, ds, kx) ==
    [p EXCEPT !.px = Add(Sub(p.px, Mul(Mul(Sq(kx), ds), p.x)), Mul(Mul(kx, ds), f)),
              !.t = Add(p.t, Mul(Mul(Mul(kx, p.x), ds),
                                 Div(Sub(One, Mul(beta_ref, p.pt)),
                                     Mul(beta_ref, Add(One, f))))),
              !.pt = Add(p.pt, Mul(Mul(kx, p.x), ds))]

\* ThinDipole::operator(): the updated px and t
ThinDipole_update(p, beta_ref, f, ds, kx) ==
    [p EXCEPT !.x = p.x,
              !.px = Add(Sub(p.px, Mul(Mul(Sq(kx), ds), p.x)), Mul(Mul(kx, ds), f)),
              !.y = p.y,
              !.py = p.py,
              !.t = Add(p.t, Mul(Mul(Mul(kx, p.x), ds),
                                 Div(Sub(One, Mul(beta_ref, p.pt)),
                                     Mul(beta_ref, Add(One, f))))),
              !.pt = p.pt]

\* ThinDipole::operator(): f, ds and kx
ThinDipole_terms(e, p, beta_ref) ==
    ThinDipole_update(p, beta_ref,
        Add(<<-1, 0, 1>>,
            Sqrt(Add(Sub(One, Div(Mul(<<2, 0, 1>>, p.pt), beta_ref)), Sq(p.pt)))),
        Mul(Mul(e.theta, degree2rad), e.rc),
        Div(One, e.rc))

\* ThinDipole::operator(): beta_ref, then the steps above
ThinDipole_map(e, p, r) == ThinDipole_terms(e, p, beta(r))

\* ShortRF::operator() without the term V cos(phi) of the energy kick
ShortRF_update_without_offset(e, p, k, phi, bgi, bgf) ==
    [p EXCEPT !.x = p.x,
              !.y = p.y,
              !.t = p.t,
              !.px = Div(Mul(p.px, bgi), bgf),
              !.py = Div(Mul(p.py, bgi), bgf),
              !.pt = Div(Sub(Mul(p.pt, bgi),
                             Mul(e.V, Cos(Add(Mul(k, p.t), phi)))),
                         bgf)]

\* ShortRF::operator(): the momenta scaled to the initial reference momentum,
\* kicked, and normalized to the final one
ShortRF_update(e, p, k, phi, bgi, bgf) ==
    [p EXCEPT !.x = p.x,
              !.y = p.y,
              !.t = p.t,
              !.px = Div(Mul(p.px, bgi), bgf),
              !.py = Div(Mul(p.py, bgi), bgf),
              !.pt = Div(Add(Sub(Mul(p.pt, bgi),
                                 Mul(e.V, Cos(Add(Mul(k, p.t), phi)))),
                             Mul(e.V, Cos(phi))),
                         bgf)]

\* ShortRF::operator() taking the final reference energy for the initial one
ShortRF_reference_final(e, p, k, phi, ptf_ref) ==
    ShortRF_update(e, p, k, phi,
        Sqrt(Sub(Sq(ptf_ref), One)),
        Sqrt(Sub(Sq(ptf_ref), One)))

\* ShortRF::operator(): pti_ref, bgi and bgf
ShortRF_reference(e, p, k, phi, ptf_ref) ==
    ShortRF_update(e, p, k, phi,
        Sqrt(Sub(Sq(Add(ptf_ref, Mul(e.V, Cos(phi)))), One)),
        Sqrt(Sub(Sq(ptf_ref), One)))

\* ShortRF::operator(): k and phi, then the steps above
ShortRF_map(e, p, r) ==
    ShortRF_reference(e, p, Mul(Div(<<0, 2, 1>>, <<SpeedOfLight, 0, 1>>), e.freq),
        Mul(e.phase, degree2rad), r.pt)

\* ExactSbend::operator(): pperp, to the locals q (bet, rc, slice_phi)
ExactSbend_perp(p, q) ==
    q @@ [pperp |-> Sqrt(Add(Sub(Sub(Sq(p.pt), Mul(Div(Q(2, 1), q.bet), p.pt)),
                                 Sq(p.py)), One))]

\* ExactSbend::operator(): the intermediate quantities pzi, rho, sin_phi, cos_phi
ExactSbend_intermediate(p, q) ==
    q @@ [pzi |-> Sqrt(Sub(Sq(q.pperp), Sq(p.px))),
          rho |-> Add(q.rc, p.x),
          sin_phi |-> Sin(q.slice_phi),
          cos_phi |-> Cos(q.slice_phi)]

\* ExactSbend::operator(): pxout from the intermediate quantities
ExactSbend_momenta(p, q) ==
    q @@ [pxout |-> Add(Mul(p.px, q.cos_phi),
                        Mul(Sub(q.pzi, Div(q.rho, q.rc)), q.sin_phi))]

\* ExactSbend::operator(): pzf and theta, the angle of momentum rotation
ExactSbend_rotation(p, q) ==
    q @@ [pzf |-> Sqrt(Sub(Sq(q.pperp), Sq(q.pxout))),
          theta |-> Sub(Add(q.slice_phi, Asin(Div(p.px, q.pperp))),
                        Asin(Div(q.pxout, q.pperp)))]

\* ExactSbend::operator(): the updated position coordinates and momenta
ExactSbend_update(e, p, q) ==
    [p EXCEPT !.x = Add(Add(Neg(q.rc), Mul(q.rho, q.cos_phi)),
                        Mul(q.rc, Sub(Add(q.pzf, Mul(p.px, q.sin_phi)),
                                      Mul(q.pzi, q.cos_phi)))),
              !.y = Add(p.y, Mul(Mul(q.theta, q.rc), p.py)),
              !.t = Sub(Sub(p.t, Mul(Mul(q.theta, q.rc), Sub(p.pt, Div(One, q.bet)))),
                        Div(Mul(m_phi(e), q.rc), q.bet)),
              !.px = q.pxout,
              !.py = p.py,
              !.pt = p.pt]

\* ExactSbend::operator(): the steps above, one after the other
ExactSbend_slice(e, p, bet, rc, slice_phi) ==
    ExactSbend_update(e, p,
        ExactSbend_rotation(p,
            ExactSbend_momenta(p,
                ExactSbend_intermediate(p,
                    ExactSbend_perp(p, [bet |-> bet, rc |-> rc,
                                        slice_phi |-> slice_phi])))))

\* ExactSbend::operator() bending by the magnitude of the slice angle
ExactSbend_map_abs_angle(e, p, r) ==
    ExactSbend_slice(e, p, beta(r),
        IF e.B # Zero THEN Div(rigidity_Tm(r), e.B) ELSE Div(e.ds, m_phi(e)),
        FAbs(Div(m_phi(e), Q(nslice(e), 1))))

\* ExactSbend::operator(): slice_phi, bet and rc, then the steps above
ExactSbend_map(e, p, r) ==
    ExactSbend_slice(e, p, beta(r),
        IF e.B # Zero THEN Div(rigidity_Tm(r), e.B) ELSE Div(e.ds, m_phi(e)),
        Div(m_phi(e), Q(nslice(e), 1)))

\* sinh and cosh are numbers of the model at 0 only
Sinh(a) == IF Bad(a) THEN a ELSE IF a = Zero THEN Zero ELSE NotRepresentable

Cosh(a) == IF Bad(a) THEN a ELSE IF a = Zero THEN One ELSE NotRepresentable

\* CFbend::operator(): bet and gx, to the locals q (slice_ds, betgam2)
CFbend_horizontal_ref(e, q) ==
    q @@ [bet |-> Sqrt(Div(q.betgam2, Add(One, q.betgam2))),
          gx |-> Add(e.k, Div(One, Sq(e.rc)))]

\* CFbend::operator() taking the sin and cos branch whatever the sign of gx
CFbend_horizontal_gx_oscillatory(q) ==
    q @@ [omegax |-> Sqrt(FAbs(q.gx)), focusing |-> TRUE]

\* CFbend::operator(): omegax and the branch on gx > 0
CFbend_horizontal_gx(q) ==
    q @@ [omegax |-> Sqrt(FAbs(q.gx)), focusing |-> Gt(q.gx, Zero)]

\* CFbend::operator(): sin and cos when gx > 0, sinh and cosh otherwise
CFbend_horizontal_branch(q) ==
    q @@ [sinx |-> IF q.focusing THEN Sin(Mul(q.omegax, q.slice_ds))
                   ELSE Sinh(Mul(q.omegax, q.slice_ds)),
          cosx |-> IF q.focusing THEN Cos(Mul(q.omegax, q.slice_ds))
                   ELSE Cosh(Mul(q.omegax, q.slice_ds))]

\* CFbend::operator(): (1 - cosx)/(gx*bet*rc), sinx/(omegax*bet*rc) and r56,
\* with -omegax in pxout when focusing and +omegax when not
CFbend_horizontal_terms(e, q) ==
    q @@ [sgn |-> IF q.focusing THEN Neg(q.omegax) ELSE q.omegax,
          c1 |-> Div(Sub(One, q.cosx), Mul(Mul(q.gx, q.bet), e.rc)),
          c2 |-> Div(q.sinx, Mul(Mul(q.omegax, q.bet), e.rc)),
          r56 |-> Add(Div(q.slice_ds, q.betgam2),
                      Div(Sub(q.sinx, Mul(q.omegax, q.slice_ds)),
                          Mul(Mul(Mul(q.gx, q.omegax), Sq(q.bet)), Sq(e.rc))))]

\* CFbend::operator(): x, px and t from the terms of the horizontal plane
CFbend_horizontal_update(p, q) ==
    [x |-> Sub(Add(Mul(q.cosx, p.x), Mul(Div(q.sinx, q.omegax), p.px)), Mul(q.c1, p.pt)),
     px |-> Sub(Add(Mul(Mul(q.sgn, q.sinx), p.x), Mul(q.cosx, p.px)), Mul(q.c2, p.pt)),
     t |-> Add(Add(Add(Mul(q.c2, p.x), Mul(q.c1, p.px)), p.t), Mul(q.r56, p.pt))]

\* CFbend::operator(), horizontal and longitudinal plane: x, px, t
CFbend_horizontal(e, p, r) ==
    CFbend_horizontal_update(p,
        CFbend_horizontal_terms(e,
            CFbend_horizontal_branch(
                CFbend_horizontal_gx(
                    CFbend_horizontal_ref(e, [slice_ds |-> Div(e.ds, Q(nslice(e), 1)),
                                              betgam2 |-> Sub(Sq(r.pt), One)])))))

\* CFbend::operator(): y and py from the terms of the vertical plane
CFbend_vertical_update(p, sgn, omegay, siny, cosy) ==
    [y |-> Add(Mul(cosy, p.y), Mul(Div(siny, omegay), p.py)),
     py |-> Add(Mul(Mul(sgn, siny), p.y), Mul(cosy, p.py))]

\* CFbend::operator(): sin and cos when gy > 0, sinh and cosh otherwise
CFbend_vertical_branch(p, slice_ds, omegay, focusing) ==
    CFbend_vertical_update(p, IF focusing THEN Neg(omegay) ELSE omegay, omegay,
        IF focusing THEN Sin(Mul(omegay, slice_ds)) ELSE Sinh(Mul(omegay, slice_ds)),
        IF focusing THEN Cos(Mul(omegay, slice_ds)) ELSE Cosh(Mul(omegay, slice_ds)))

\* CFbend::operator(), vertical plane, reading x and px for y and py
CFbend_vertical_of_x(e, p, r) ==
    CFbend_vertical_branch([p EXCEPT !.y = p.x, !.py = p.px],
        Div(e.ds, Q(nslice(e), 1)), Sqrt(FAbs(Neg(e.k))), Gt(Neg(e.k), Zero))

\* CFbend::operator(), vertical plane: y, py, with gy = -k
CFbend_vertical(e, p, r) ==
    CFbend_vertical_branch(p, Div(e.ds, Q(nslice(e), 1)), Sqrt(FAbs(Neg(e.k))),
        Gt(Neg(e.k), Zero))

\* CFbend::operator(): the assignment of the updated coordinates
CFbend_assign(p, h, v) ==
    [p EXCEPT !.x = h.x, !.t = h.t, !.y = v.y, !.px = h.px, !.py = v.py, !.pt = p.pt]

\* CFbend::operator()
CFbend_map(e, p, r) == CFbend_assign(p, CFbend_horizontal(e, p, r), CFbend_vertical(e, p, r))

\* the particle map of element e
ParticleMap(e, p, r) ==
    CASE e.kind = "Aperture" -> Aperture_map(e, p, r)
      [] e.kind = "Kicker" -> Kicker_map(e, p, r)
      [] e.kind = "DipEdge" -> DipEdge_map(e, p, r)
      [] e.kind = "ThinDipole" -> ThinDipole_map(e, p, r)
      [] e.kind = "ShortRF" -> ShortRF_map(e, p, r)
      [] e.kind = "ExactSbend" -> ExactSbend_map(e, p, r)
      [] e.kind = "CFbend" -> CFbend_map(e, p, r)

\* every comparison the map of e makes on p is between numbers of the model
MapDefined(e, p) == e.kind = "Aperture" => Aperture_defined(e, p)

\* a ShortRF particle map that advances the reference energy itself
RefWrittenByParticleMap(e, p, r) ==
    IF e.kind = "ShortRF"
    THEN [r EXCEPT !.pt = Sub(r.pt, Mul(e.V, Cos(Mul(e.phase, degree2rad))))]
    ELSE r

\* the reference particle after a particle map ran: every map takes it as
\* RefPart const & and leaves it as it was
RefAfterParticleMap(e, p, r) == r

---------------------------------------------------------------------------
\* the charge grid: one box without ghost nodes, along x

\* the nodes of the box, at x = -1, -1/2, 0, 1/2, 1
Nodes == 0..4

\* a grid as DepositCharge may find it: what an earlier use has left in it
StaleGrid == [k \in Nodes |-> One]

---------------------------------------------------------------------------
\* the beam and the slice loop

NoElem == [kind |-> "none"]

NoRef == [kind |-> "none"]

\* phase-space coordinates of the particles of the initial beams: one on the
\* reference trajectory, two off it that a quarter-turn bend of radius 1 maps
\* to numbers of the model (the second off-energy), one with horizontal momentum
CoordSeq ==
    << [x |-> Zero, y |-> Zero, t |-> Zero, px |-> Zero, py |-> Zero, pt |-> Zero],
       [x |-> Q(-1, 5), y |-> Q(4, 5), t |-> Zero, px |-> Zero, py |-> Q(3, 5),
        pt |-> Zero],
       [x |-> Q(-4, 9), y |-> Q(1, 10), t |-> Q(2, 1), px |-> Zero, py |-> Zero,
        pt |-> Q(2, 9)],
       [x |-> Q(2, 5), y |-> Zero, t |-> One, px |-> Q(3, 5), py |-> Zero,
        pt |-> Zero] >>

Particle(c, id) ==
    [x |-> c.x, y |-> c.y, t |-> c.t, px |-> c.px, py |-> c.py, pt |-> c.pt, id |-> id]

\* beams of NPart particles with ids 1..NPart
Beams ==
    { [i \in 1..NPart |-> Particle(CoordSeq[((i + b) % Len(CoordSeq)) + 1], i)] :
        b \in 1..Len(CoordSeq) }

RefInits == {RefInit(Q(5, 4), Zero), RefInit(Q(5, 3), Q(1, 5))}

\* the null pointer m_particles_lost is initialized with
nullptr == "nullptr"

\* the lost-particle containers of the simulation driver
LostContainers == {"lostA", "lostB"}

\* a beam of NPart particles in an initialized simulation: the configuration
\* of the container stays as it is while the lattice is tracked
Init ==
    /\ grids = TRUE
    /\ m_particle_shape = <<>>
    /\ m_particles_lost = nullptr
    /\ lostpc = [c \in LostContainers |-> {}]
    /\ aborted = FALSE
    /\ appended = NPart
    /\ sinkPassed = nullptr
    /\ rho = StaleGrid
    /\ refpart \in RefInits
    /\ pc \in Beams
    /\ elem = NoElem
    /\ slice = 0
    /\ phase = "idle"
    /\ todo = {}
    /\ nelems = 0
    /\ id0 = [i \in 1..NPart |-> pc[i].id]
    /\ last = [op |-> "none"]
    /\ refElem = refpart
    /\ refAdv = refpart
    /\ refSeen = [i \in 1..NPart |-> NoRef]
    /\ refWrites = 0
    /\ pcSlice = pc
    /\ pcElem = pc
    /\ prev = [elem |-> NoElem]

\* the driver takes the next element of the lattice
BeginElement(e) ==
    /\ ~aborted
    /\ phase = "idle"
    /\ nelems < MaxElems
    /\ elem' = e
    /\ slice' = 0
    /\ phase' = "ref"
    /\ nelems' = nelems + 1
    /\ refElem' = refpart
    /\ refWrites' = 0
    /\ refSeen' = [i \in 1..NPart |-> NoRef]
    /\ pcElem' = pc
    /\ prev' = IF elem.kind = "ExactSbend"
               THEN [elem |-> elem, pc |-> pcElem, ref |-> refElem]
               ELSE [elem |-> NoElem]
    /\ last' = [op |-> "begin"]
    /\ UNCHANGED <<refpart, pc, todo, id0, refAdv, pcSlice>>
    /\ UNCHANGED cvars

\* the reference map left r2 in m_refpart
RefWritten(r2) ==
    /\ RefRepresentable(r2)
    /\ refpart' = r2
    /\ refAdv' = r2

\* the slice's first step: the element's reference map
RefAdvance ==
    /\ phase = "ref"
    /\ RefWritten(RefMap(elem, refpart))
    /\ phase' = "push"
    /\ todo' = DOMAIN pc
    /\ refWrites' = refWrites + 1
    /\ pcSlice' = pc
    /\ last' = [op |-> "ref", elem |-> elem, ref |-> refpart]
    /\ UNCHANGED <<pc, elem, slice, nelems, id0, refElem, refSeen, pcElem, prev>>
    /\ UNCHANGED cvars

\* the particle map left p2 in place of particle i
ParticleWritten(i, p2) ==
    /\ PartRepresentable(p2)
    /\ pc' = [pc EXCEPT ![i] = p2]

\* the slice's particle map reaches particle i, in any order
Push(i) ==
    /\ phase = "push"
    /\ i \in todo
    /\ MapDefined(elem, pc[i])
    /\ ParticleWritten(i, ParticleMap(elem, pc[i], refpart))
    /\ refpart' = RefAfterParticleMap(elem, pc[i], refpart)
    /\ todo' = todo \ {i}
    /\ refSeen' = [refSeen EXCEPT ![i] = refpart]
    /\ last' = [op |-> "map", elem |-> elem, i |-> i, p |-> pc[i], ref |-> refpart]
    /\ UNCHANGED <<elem, slice, phase, nelems, id0, refElem, refAdv, refWrites,
                   pcSlice, pcElem, prev>>
    /\ UNCHANGED cvars

\* every particle was pushed: the next slice, or the end of the element
EndSlice ==
    /\ phase = "push"
    /\ todo = {}
    /\ slice' = slice + 1
    /\ phase' = IF slice + 1 = nslice(elem) THEN "idle" ELSE "ref"
    /\ refWrites' = IF slice + 1 = nslice(elem) THEN refWrites ELSE 0
    /\ refSeen' = IF slice + 1 = nslice(elem) THEN refSeen ELSE [i \in 1..NPart |-> NoRef]
    /\ pcSlice' = pc
    /\ last' = [op |-> "endslice", elem |-> elem, writes |-> refWrites]
    /\ UNCHANGED <<refpart, pc, elem, todo, nelems, id0, refElem, refAdv, pcElem,
                   prev>>
    /\ UNCHANGED cvars

Next ==
    \/ \E e \in Elements : BeginElement(e)
    \/ RefAdvance
    \/ \E i \in 1..NPart : Push(i)
    \/ EndSlice

Spec == Init /\ [][Next]_vars

---------------------------------------------------------------------------
\* the particle container: its configuration, bulk append, and the sweep that
\* moves lost particles out

\* what the tracking loop keeps of its own, other than the particles
tvars == <<refpart, elem, slice, phase, todo, nelems, id0, refElem, refAdv,
           refSeen, refWrites, pcSlice, pcElem, prev>>

\* algo.particle_shape of the example inputs
ParticleShapeInput == 2

\* the orders of the particle shape
ShapeOrders == {1, 2, 3}

\* GetParticleShape returning has_value() for value()
GetParticleShape_has_value == IF m_particle_shape # <<>> THEN 1 ELSE 0

\* GetParticleShape: m_particle_shape.value()
GetParticleShape == m_particle_shape[1]

\* GetLostParticleContainer
GetLostParticleContainer == m_particles_lost

\* the driver is between two elements of a run that no fatal error ended
Running == ~aborted /\ phase = "idle"

\* AmrCore::InitFromScratch: the grids are created
InitGrids ==
    /\ Running
    /\ ~grids
    /\ grids' = TRUE
    /\ last' = [op |-> "grids"]
    /\ UNCHANGED <<pc, m_particle_shape, m_particles_lost, lostpc, aborted, appended,
                   sinkPassed, rho>>
    /\ UNCHANGED tvars

\* the elementary charge: charges are in units of it
q_e == One

\* the bunch charge the driver appends particles with
BunchCharge == Q(6, 1)

\* the container with n more records, of ids appended + 1 .. appended + n,
\* coordinates taken from CoordSeq, starting after the b-th, and the weight
\* bunch charge / elementary charge / n
WithNParticles(n, b) ==
    [i \in DOMAIN pc \cup (appended + 1)..(appended + n) |->
        IF i \in DOMAIN pc THEN pc[i]
        ELSE Particle(CoordSeq[((i + b) % Len(CoordSeq)) + 1], i)
                 @@ [w |-> Div(Div(BunchCharge, q_e), Q(n, 1))]]

\* AddNParticles adding the records whether or not the grids exist
AddNParticles_unchecked(n, b) ==
    /\ Running
    /\ appended + n <= NPart
    /\ pc' = WithNParticles(n, b)
    /\ appended' = appended + n
    /\ last' = [op |-> "add", n |-> n]
    /\ UNCHANGED <<grids, m_particle_shape, m_particles_lost, lostpc, aborted,
                   sinkPassed, rho>>
    /\ UNCHANGED tvars

\* AddNParticles: a fatal error before the grids exist, n new records after
AddNParticles(n, b) ==
    /\ Running
    /\ appended + n <= NPart
    /\ IF grids
       THEN /\ pc' = WithNParticles(n, b)
            /\ appended' = appended + n
            /\ UNCHANGED aborted
       ELSE /\ aborted' = TRUE
            /\ UNCHANGED <<pc, appended>>
    /\ last' = [op |-> "add", n |-> n]
    /\ UNCHANGED <<grids, m_particle_shape, m_particles_lost, lostpc, sinkPassed, rho>>
    /\ UNCHANGED tvars

\* SetLostParticleContainer keeping the container registered first
SetLostParticleContainer_once(c) ==
    /\ Running
    /\ m_particles_lost' = IF m_particles_lost = nullptr THEN c ELSE m_particles_lost
    /\ sinkPassed' = c
    /\ last' = [op |-> "setlost", ptr |-> c]
    /\ UNCHANGED <<pc, grids, m_particle_shape, lostpc, aborted, appended, rho>>
    /\ UNCHANGED tvars

\* SetLostParticleContainer: the pointer is stored
SetLostParticleContainer(c) ==
    /\ Running
    /\ m_particles_lost' = c
    /\ sinkPassed' = c
    /\ last' = [op |-> "setlost", ptr |-> c]
    /\ UNCHANGED <<pc, grids, m_particle_shape, lostpc, aborted, appended, rho>>
    /\ UNCHANGED tvars

\* the order is stored by the first call; a later call is a logic error
StoreParticleShape(order, caller) ==
    /\ Running
    /\ IF m_particle_shape = <<>>
       THEN /\ m_particle_shape' = <<order>>
            /\ UNCHANGED aborted
       ELSE /\ aborted' = TRUE
            /\ UNCHANGED m_particle_shape
    /\ last' = [op |-> "shape", order |-> order, caller |-> caller]
    /\ UNCHANGED <<pc, grids, m_particles_lost, lostpc, appended, sinkPassed, rho>>
    /\ UNCHANGED tvars

\* SetParticleShape (int order)
SetParticleShape(order) == StoreParticleShape(order, "order")

\* SetParticleShape (): the order of the inputs
SetParticleShapeFromInputs == StoreParticleShape(ParticleShapeInput, "inputs")

\* the particles of the container that are marked lost
MarkedLost == {i \in DOMAIN pc : pc[i].id < 0}

\* the sweep after the maps: the records marked lost are copied to the
\* registered lost-particle container, if there is one, and leave the container
Sweep ==
    /\ Running
    /\ lostpc' = IF m_particles_lost = nullptr THEN lostpc
                 ELSE [lostpc EXCEPT ![m_particles_lost] = @ \cup {pc[i] : i \in MarkedLost}]
    /\ pc' = [i \in DOMAIN pc \ MarkedLost |-> pc[i]]
    /\ last' = [op |-> "sweep", sink |-> m_particles_lost, pc |-> pc, lostpc |-> lostpc]
    /\ UNCHANGED <<grids, m_particle_shape, m_particles_lost, aborted, appended,
                   sinkPassed, rho>>
    /\ UNCHANGED tvars

\* the position x in node spacings from node 0: the nodes are 1/2 apart, from
\* x = -1
GridPosition(x) == Mul(Sub(x, Q(-1, 1)), Q(2, 1))

\* the largest integer that is not above the rational a
Floor(a) == a[1] \div a[3]

\* the linear shape factor: the weights of the two nodes around xmid
ShapeFactor1(xmid, j) ==
    [k \in Nodes |->
        CASE k = j -> Sub(One, Sub(xmid, Q(j, 1)))
          [] k = j + 1 -> Sub(xmid, Q(j, 1))
          [] OTHER -> Zero]

\* the quadratic shape factor: the weights of the node j nearest to xmid and
\* of its neighbours
ShapeFactor2(xmid, j) ==
    [k \in Nodes |->
        CASE k = j - 1 -> Mul(Q(1, 2), Sq(Sub(Q(1, 2), Sub(xmid, Q(j, 1)))))
          [] k = j -> Sub(Q(3, 4), Sq(Sub(xmid, Q(j, 1))))
          [] k = j + 1 -> Mul(Q(1, 2), Sq(Add(Q(1, 2), Sub(xmid, Q(j, 1)))))
          [] OTHER -> Zero]

\* the cubic shape factor: the weights of the two nodes around xmid and of
\* their neighbours, for the offsets d from node j and 1 - d from node j + 1
ShapeFactor3(d, omd, j) ==
    [k \in Nodes |->
        CASE k = j - 1 -> Div(Pow3(omd), Q(6, 1))
          [] k = j -> Sub(Q(2, 3), Mul(Sq(d), Sub(One, Div(d, Q(2, 1)))))
          [] k = j + 1 -> Sub(Q(2, 3), Mul(Sq(omd), Sub(One, Div(omd, Q(2, 1)))))
          [] k = j + 2 -> Div(Pow3(d), Q(6, 1))
          [] OTHER -> Zero]

\* the share of the charge of a particle at xmid that each node of the box
\* gets, for the interpolation order
ShapeFactor(order, xmid) ==
    CASE order = 1 -> ShapeFactor1(xmid, Floor(xmid))
      [] order = 2 -> ShapeFactor2(xmid, Floor(Add(xmid, Q(1, 2))))
      [] order = 3 -> ShapeFactor3(Sub(xmid, Q(Floor(xmid), 1)),
                                   Sub(One, Sub(xmid, Q(Floor(xmid), 1))),
                                   Floor(xmid))

\* the particles whose charge is deposited, taking every stored record
DepositedParticles_stored(c) == DOMAIN c

\* the particles whose charge is deposited: the live ones
DepositedParticles(c) == {i \in DOMAIN c : c[i].id > 0}

\* the grid g with the charge weight * q_e of each deposited particle of c
\* added, shared among the nodes by the shape factor
Accumulate(g, c, order) ==
    [k \in Nodes |->
        LET sum[n \in 0..NPart] ==
                IF n = 0 THEN g[k]
                ELSE IF n \in DepositedParticles(c)
                     THEN Add(sum[n - 1],
                              Mul(Mul(c[n].w, q_e),
                                  ShapeFactor(order, GridPosition(c[n].x))[k]))
                     ELSE sum[n - 1]
        IN  sum[NPart]]

\* DepositCharge adding to what the grid holds
DepositCharge_grid_adding(g, c, order) == Accumulate(g, c, order)

\* DepositCharge: the grid is reset to zero, then the charge is deposited;
\* with one box, no neighbouring box contributes to the boundary sum
DepositCharge_grid(g, c, order) ==
    Accumulate([k \in Nodes |-> Zero], c, order)

\* DepositCharge (rho, ref_ratio), on the grids and with the configured shape
DepositCharge ==
    /\ Running
    /\ grids
    /\ GetParticleShape_has_value = 1
    /\ rho' = DepositCharge_grid(rho, pc, GetParticleShape)
    /\ last' = [op |-> "deposit", rho |-> rho]
    /\ UNCHANGED <<pc, grids, m_particle_shape, m_particles_lost, lostpc, aborted,
                   appended, sinkPassed>>
    /\ UNCHANGED tvars

\* the particles a reduction takes, taking every stored record
ReducedParticles_stored(c) == DOMAIN c

\* the particles a reduction takes: the live ones
ReducedParticles(c) == {i \in DOMAIN c : c[i].id > 0}

\* the least of the position f over the particles a reduction takes
MinPosition(c, f) ==
    IF ReducedParticles(c) = {} THEN NonFinite
    ELSE LET S == {c[i][f] : i \in ReducedParticles(c)}
         IN  CHOOSE a \in S : \A b \in S : Geq(b, a)

\* the greatest of the position f over the particles a reduction takes
MaxPosition(c, f) ==
    IF ReducedParticles(c) = {} THEN NonFinite
    ELSE LET S == {c[i][f] : i \in ReducedParticles(c)}
         IN  CHOOSE a \in S : \A b \in S : Geq(a, b)

\* MinAndMaxPositions: the third position is t
MinAndMaxPositions(c) ==
    [x_min |-> MinPosition(c, "x"), y_min |-> MinPosition(c, "y"),
     z_min |-> MinPosition(c, "t"), x_max |-> MaxPosition(c, "x"),
     y_max |-> MaxPosition(c, "y"), z_max |-> MaxPosition(c, "t")]

\* the sum of the position f (power 1) or of its square (power 2) over the
\* particles a reduction takes
SumPosition(c, f, power) ==
    LET sum[n \in 0..NPart] ==
            IF n = 0 THEN Zero
            ELSE IF n \in ReducedParticles(c)
                 THEN Add(sum[n - 1], IF power = 1 THEN c[n][f] ELSE Sq(c[n][f]))
                 ELSE sum[n - 1]
    IN  sum[NPart]

\* the mean of the position f
MeanPosition(c, f) ==
    Div(SumPosition(c, f, 1), Q(Cardinality(ReducedParticles(c)), 1))

\* the variance of the position f: the mean of the squares less the square of
\* the mean
VarPosition(c, f) ==
    Sub(Div(SumPosition(c, f, 2), Q(Cardinality(ReducedParticles(c)), 1)),
        Sq(MeanPosition(c, f)))

\* MeanAndStdPositions: the third position is t
MeanAndStdPositions(c) ==
    [x_mean |-> MeanPosition(c, "x"), x_std |-> Sqrt(VarPosition(c, "x")),
     y_mean |-> MeanPosition(c, "y"), y_std |-> Sqrt(VarPosition(c, "y")),
     z_mean |-> MeanPosition(c, "t"), z_std |-> Sqrt(VarPosition(c, "t"))]

\* the elements the container is tracked through: apertures of half-width 1/3
\* and a kicker
ContainerElements ==
    {e \in Apertures : e.xmax = Q(1, 3)}
        \cup {e \in Kickers : e.unit = "dimensionless" /\ e.xkick # Zero}

\* a container as constructed: no grids, no particles, no shape, no sink
ContainerInit ==
    /\ grids = FALSE
    /\ m_particle_shape = <<>>
    /\ m_particles_lost = nullptr
    /\ lostpc = [c \in LostContainers |-> {}]
    /\ aborted = FALSE
    /\ appended = 0
    /\ sinkPassed = nullptr
    /\ rho = StaleGrid
    /\ refpart = RefInit(Q(5, 4), Zero)
    /\ pc = <<>>
    /\ elem = NoElem
    /\ slice = 0
    /\ phase = "idle"
    /\ todo = {}
    /\ nelems = 0
    /\ id0 = [i \in 1..NPart |-> i]
    /\ last = [op |-> "none"]
    /\ refElem = refpart
    /\ refAdv = refpart
    /\ refSeen = [i \in 1..NPart |-> NoRef]
    /\ refWrites = 0
    /\ pcSlice = pc
    /\ pcElem = pc
    /\ prev = [elem |-> NoElem]

ContainerNext ==
    \/ InitGrids
    \/ \E n \in 1..NPart, b \in 0..1 : AddNParticles(n, b)
    \/ \E c \in LostContainers : SetLostParticleContainer(c)
    \/ \E order \in ShapeOrders : SetParticleShape(order)
    \/ SetParticleShapeFromInputs
    \/ \E e \in ContainerElements : BeginElement(e)
    \/ RefAdvance
    \/ \E i \in 1..NPart : Push(i)
    \/ EndSlice
    \/ Sweep

ContainerSpec == ContainerInit /\ [][ContainerNext]_vars

\* the container with the charge deposition of the space-charge step: filled,
\* tracked through the apertures, and deposited on the grid
DepositNext ==
    \/ InitGrids
    \/ \E n \in 1..NPart, b \in 0..1 : AddNParticles(n, b)
    \/ \E order \in ShapeOrders : SetParticleShape(order)
    \/ \E e \in ContainerElements \cap Apertures : BeginElement(e)
    \/ RefAdvance
    \/ \E i \in 1..NPart : Push(i)
    \/ EndSlice
    \/ DepositCharge

DepositSpec == ContainerInit /\ [][DepositNext]_vars

---------------------------------------------------------------------------
\* a particle map called on one particle, as a unit test of an element calls it

\* combined-function bends of either sign of gx = k + 1/rc^2 and of gy = -k,
\* as <<ds/pi per slice, rc, k>>: gx = 16/25 and gy = 9/25; gx = 25/16 and
\* gy = -9/16; gx = -16/9 and gy = 25/9; gx = -11/100 and gy = 9/25
MapCFbendCases ==
    { <<Q(5, 2), One, Q(-9, 25)>>, <<Q(2, 1), One, Q(9, 16)>>,
      <<Q(3, 2), One, Q(-25, 9)>>, <<Q(5, 2), Q(2, 1), Q(-9, 25)>> }

MapCFbends ==
    { [kind |-> "CFbend", ds |-> PiQ(c[1][1] * n, c[1][3]), rc |-> c[2], k |-> c[3],
       nslice |-> n] :
        c \in MapCFbendCases, n \in {1, MaxSlice} }

MapElements == MapCFbends \cup DegenerateCFbends

\* particles with the x, px, t, pt of one member of CoordSeq and the y, py of
\* another
MapParticles ==
    { [Particle(CoordSeq[a], 1) EXCEPT !.y = CoordSeq[b].y, !.py = CoordSeq[b].py] :
        a, b \in 1..Len(CoordSeq) }

\* the arguments of one call
MapInputs ==
    { [op |-> "input", elem |-> e, p |-> p, ref |-> r] :
        e \in MapElements, p \in MapParticles, r \in RefInits }

\* an element, a particle and a reference particle are at hand; the beam and
\* the container are not involved
\* particles for the cavities: those above, and one with an energy deviation
\* at the reference time
MapShortRFParticles ==
    MapParticles \cup {[Particle(CoordSeq[3], 1) EXCEPT !.t = Zero]}

\* calls of the particle map of a cavity, with the reference particle its
\* reference map leaves, where that is a particle of numbers of the model
MapShortRFInputs ==
    { [op |-> "input", elem |-> c[1], p |-> p, ref |-> ShortRF_ref(c[1], c[2])] :
        c \in { c0 \in ShortRFs \X RefInits : RefRepresentable(ShortRF_ref(c0[1], c0[2])) },
        p \in MapShortRFParticles }

MapInit ==
    /\ last \in MapInputs \cup MapShortRFInputs
    /\ grids = TRUE
    /\ m_particle_shape = <<>>
    /\ m_particles_lost = nullptr
    /\ lostpc = [c \in LostContainers |-> {}]
    /\ aborted = FALSE
    /\ appended = 0
    /\ sinkPassed = nullptr
    /\ rho = StaleGrid
    /\ refpart = last.ref
    /\ pc = <<>>
    /\ elem = last.elem
    /\ slice = 0
    /\ phase = "idle"
    /\ todo = {}
    /\ nelems = 0
    /\ id0 = [i \in 1..NPart |-> i]
    /\ refElem = refpart
    /\ refAdv = refpart
    /\ refSeen = [i \in 1..NPart |-> NoRef]
    /\ refWrites = 0
    /\ pcSlice = pc
    /\ pcElem = pc
    /\ prev = [elem |-> NoElem]

\* operator()(p, px, py, pt, refpart) of the element, called once: out is the
\* particle as the call leaves it
CallParticleMap ==
    /\ last.op = "input"
    /\ last' = [op |-> "call", elem |-> last.elem, p |-> last.p, ref |-> last.ref,
                out |-> ParticleMap(last.elem, last.p, last.ref)]
    /\ UNCHANGED <<refpart, pc, elem, slice, phase, todo, nelems, id0, refElem, refAdv,
                   refSeen, refWrites, pcSlice, pcElem, prev>>
    /\ UNCHANGED cvars

MapNext == CallParticleMap

MapSpec == MapInit /\ [][MapNext]_vars

---------------------------------------------------------------------------
\* properties of the aperture

\* |a/b| > 1 for rationals a and b # 0, by cross-multiplication
SqExceedsOne(a, b) == Abs(a[1] * b[3]) > Abs(a[3] * b[1])

\* u^2 + v^2 compared with 1 for u = x/xmax, v = y/ymax, in integers:
\* the sign of (A^2 D^2 + C^2 B^2) - B^2 D^2 with u = A/B, v = C/D in
\* lowest terms
EllipseExcess(e, p) ==
    LET u == Q(p.x[1] * e.xmax[3], p.x[3] * e.xmax[1])
        v == Q(p.y[1] * e.ymax[3], p.y[3] * e.ymax[1])
        A == u[1]
        B == u[3]
        C == v[1]
        D == v[3]
    IN  (A * A) * (D * D) + (C * C) * (B * B) - (B * B) * (D * D)

StrictlyOutside(e, p) ==
    IF e.shape = "rectangular"
    THEN SqExceedsOne(p.x, e.xmax) \/ SqExceedsOne(p.y, e.ymax)
    ELSE EllipseExcess(e, p) > 0

\* C1: the aperture negates the id of a live particle exactly when the particle
\* is strictly outside the aperture (rectangular: u^2 > 1 or v^2 > 1;
\* elliptical: u^2 + v^2 > 1); a particle on the boundary keeps its id
C1_LostIffStrictlyOutside ==
    (last.op = "map" /\ last.elem.kind = "Aperture" /\ last.p.id > 0) =>
        /\ StrictlyOutside(last.elem, last.p) => pc[last.i].id = -last.p.id
        /\ ~StrictlyOutside(last.elem, last.p) => pc[last.i].id = last.p.id

\* an elliptical aperture was applied to the whole beam: a particle exactly on
\* the ellipse is alive, a particle outside it is lost
C1_Witness ==
    /\ phase = "push" /\ todo = {}
    /\ elem.kind = "Aperture" /\ elem.shape = "elliptical"
    /\ \E i, j \in 1..NPart :
        /\ EllipseExcess(elem, pc[i]) = 0 /\ pc[i].id = id0[i]
        /\ EllipseExcess(elem, pc[j]) > 0 /\ pc[j].id = -id0[j]

\* C2: every particle map preserves the magnitude of the id; only the sign
\* changes, and only the aperture changes it
C2_IdMagnitudePreserved ==
    /\ \A i \in 1..NPart : pc[i].id \in {id0[i], -id0[i]}
    /\ (last.op = "map" /\ last.elem.kind # "Aperture") => pc[last.i].id = last.p.id

\* a particle the aperture marked lost went through all slices of a
\* combined-function bend with its negated id
C2_Witness ==
    /\ nelems = 2 /\ phase = "idle" /\ last.op = "endslice"
    /\ elem.kind = "CFbend" /\ nslice(elem) > 1
    /\ \E i \in 1..NPart : id0[i] > 1 /\ pc[i].id = -id0[i]

\* C3: the aperture leaves x, y, t, px, py, pt of the particle unchanged and
\* keeps the particle in the container
C3_ApertureKeepsCoordinates ==
    /\ DOMAIN pc = 1..NPart
    /\ (last.op = "map" /\ last.elem.kind = "Aperture") =>
        \A f \in PartFields : pc[last.i][f] = last.p[f]

\* the aperture marked a particle with horizontal momentum lost
C3_Witness ==
    /\ last.op = "map" /\ last.elem.kind = "Aperture"
    /\ last.p.id > 0 /\ pc[last.i].id < 0
    /\ pc[last.i].px # Zero /\ pc[last.i].px = last.p.px

---------------------------------------------------------------------------
\* properties of the kicker

\* C4: a kicker with xkick = ykick = 0 is the identity on every particle, for
\* either unit
C4_ZeroKickIdentity ==
    (last.op = "map" /\ last.elem.kind = "Kicker"
        /\ last.elem.xkick = Zero /\ last.elem.ykick = Zero) =>
        pc[last.i] = last.p

\* a zero kick in T-m was applied to a particle with horizontal momentum
C4_Witness ==
    /\ last.op = "map" /\ last.elem.kind = "Kicker" /\ last.elem.unit = "Tm"
    /\ last.elem.xkick = Zero /\ last.elem.ykick = Zero
    /\ last.p.px # Zero /\ pc[last.i] = last.p

\* C5: the kicker adds xkick to px and ykick to py, the kicks divided by the
\* magnetic rigidity of the reference particle when given in T-m; x, y, t, pt
\* and the id are unchanged
C5_KickerOffsets ==
    (last.op = "map" /\ last.elem.kind = "Kicker") =>
        LET p == last.p
            q == pc[last.i]
            e == last.elem
            brho == rigidity_Tm(last.ref)
        IN  /\ q.x = p.x /\ q.y = p.y /\ q.t = p.t /\ q.pt = p.pt /\ q.id = p.id
            /\ e.unit = "dimensionless" =>
                 q.px = Add(p.px, e.xkick) /\ q.py = Add(p.py, e.ykick)
            /\ e.unit = "Tm" =>
                 /\ Mul(Sub(q.px, p.px), brho) = e.xkick
                 /\ Mul(Sub(q.py, p.py), brho) = e.ykick

\* a nonzero kick in T-m was applied under a rigidity other than 1
C5_Witness ==
    /\ last.op = "map" /\ last.elem.kind = "Kicker" /\ last.elem.unit = "Tm"
    /\ last.elem.xkick # Zero /\ last.elem.ykick # Zero
    /\ rigidity_Tm(last.ref) # One
    /\ pc[last.i].px # last.p.px /\ pc[last.i].py # last.p.py

---------------------------------------------------------------------------
\* properties of the reference maps

\* C6: the nslice applications of a thick element's reference map raise s by
\* exactly ds in total
C6_ThickAdvancesByLength ==
    (last.op = "endslice" /\ phase = "idle" /\ elem.kind \in ThickKinds) =>
        refpart.s = Add(refElem.s, elem.ds)

\* a sector bend of several slices, tracked after another thick element, is done
C6_Witness ==
    /\ last.op = "endslice" /\ phase = "idle" /\ nelems = 2
    /\ elem.kind = "ExactSbend" /\ nslice(elem) > 1 /\ slice = nslice(elem)
    /\ refElem.s # Zero
    /\ refpart.s = Add(refElem.s, elem.ds)

\* C7, as the spec states it: s never decreases
C7_SNeverDecreases == [][Geq(refpart'.s, refpart.s)]_vars

\* C7: a reference map changes s by exactly ds / nslice for a thick element and
\* not at all for a thin one, and no other step changes s; s does not decrease
\* over an element with ds >= 0 and decreases by |ds| / nslice per slice over
\* a negative-length bend
C7_SAdvancesBySignedSliceLength ==
    [][ /\ (phase = "ref" /\ elem.kind \in ThickKinds) =>
            /\ Mul(Sub(refpart'.s, refpart.s), Q(nslice(elem), 1)) = elem.ds
            /\ Sign(elem.ds) >= 0 => Geq(refpart'.s, refpart.s)
            /\ Sign(elem.ds) < 0 => Gt(refpart.s, refpart'.s)
        /\ ~(phase = "ref" /\ elem.kind \in ThickKinds) => refpart'.s = refpart.s
      ]_vars

\* the reference map of a negative-length bend lowered s
C7_Witness ==
    /\ last.op = "ref" /\ last.elem.kind \in ThickKinds
    /\ Sign(last.elem.ds) < 0
    /\ Gt(last.ref.s, refpart.s)

\* C8: the reference maps of ExactSbend and CFbend leave the reference pt and
\* py unchanged, over any number of slices
C8_BendKeepsPtPy ==
    /\ (last.op = "ref" /\ last.elem.kind \in ThickKinds) =>
        refpart.pt = last.ref.pt /\ refpart.py = last.ref.py
    /\ (elem.kind \in ThickKinds) =>
        refpart.pt = refElem.pt /\ refpart.py = refElem.py

\* a bend of several slices turned a reference momentum with a vertical part
C8_Witness ==
    /\ elem.kind \in ThickKinds /\ nslice(elem) > 1 /\ slice = nslice(elem)
    /\ refpart.py # Zero /\ refpart.py = refElem.py /\ refpart.pt = refElem.pt
    /\ refpart.px # refElem.px

\* cos(phase) for the phases of ShortRFs, in degrees
CosDegrees(d) ==
    CASE d = Zero -> One
      [] d = Q(60, 1) -> Q(1, 2)
      [] d = Q(180, 1) -> Q(-1, 1)
      [] d = Q(-90, 1) -> Zero

\* a = b * sqrt(num / den) for same-signed a and b
ScaledByRoot(a, b, num, den) ==
    /\ Mul(Sq(a), den) = Mul(Sq(b), num)
    /\ Sign(a) = Sign(b)

\* C9: the reference map of ShortRF sets pt to pt - V cos(phase), whatever the
\* reference time; x, y, z, t and s are unchanged; px, py and pz are scaled by
\* sqrt(pt'^2 - 1) / sqrt(pt^2 - 1)
C9_ShortRFReference ==
    (last.op = "ref" /\ last.elem.kind = "ShortRF") =>
        LET r0 == last.ref
            r1 == refpart
            e == last.elem
            bg0 == Sub(Sq(r0.pt), One)
            bg1 == Sub(Sq(r1.pt), One)
        IN  /\ r1.pt = Sub(r0.pt, Mul(e.V, CosDegrees(e.phase)))
            /\ \A f \in {"x", "y", "z", "t", "s"} : r1[f] = r0[f]
            /\ \A f \in {"px", "py", "pz"} : ScaledByRoot(r1[f], r0[f], bg1, bg0)

\* a cavity changed the energy of a reference particle that a bend had given a
\* time other than 0 and that has vertical momentum
C9_Witness ==
    /\ last.op = "ref" /\ last.elem.kind = "ShortRF"
    /\ last.ref.t # Zero /\ last.ref.py # Zero
    /\ refpart.pt # last.ref.pt /\ refpart.py # last.ref.py
    /\ refpart.t = last.ref.t

---------------------------------------------------------------------------
\* properties of the slice loop

\* C10: in each slice the reference particle is written exactly once, by the
\* reference map and before the particle map reaches any particle; the
\* particle maps do not write it, and are all given the same reference state
C10_ReferenceWrittenOncePerSlice ==
    /\ phase = "ref" =>
        refWrites = 0 /\ \A i \in 1..NPart : refSeen[i] = NoRef
    /\ phase = "push" =>
        /\ refWrites = 1
        /\ refpart = refAdv
        /\ \A i \in 1..NPart :
            refSeen[i] = IF i \in todo THEN NoRef ELSE refAdv
    /\ last.op = "map" => refpart = last.ref
    /\ last.op = "endslice" => last.writes = 1

\* the second slice of a bend pushed every particle under the
\* reference state its reference map wrote
C10_Witness ==
    /\ phase = "push" /\ todo = {} /\ slice = 1
    /\ elem.kind \in ThickKinds
    /\ refpart # refElem /\ refWrites = 1
    /\ \A i \in 1..NPart : refSeen[i] = refpart

---------------------------------------------------------------------------
\* properties of the particle loop

\* C11: the result of a slice's particle map does not depend on the order in
\* which the particles are reached: a particle not reached yet is as the slice
\* found it whatever was done to the others, and once all are reached each is
\* the map of its own state at the start of the slice, of the element and of
\* the reference particle
C11_ParticlesIndependent ==
    phase = "push" =>
        \A j \in DOMAIN pc :
            /\ j \in todo => pc[j] = pcSlice[j]
            /\ todo = {} => pc[j] = ParticleMap(elem, pcSlice[j], refAdv)

\* a kicker reached the last particle of the container before the first, and
\* changed both
C11_Witness ==
    /\ phase = "push" /\ todo = {} /\ last.op = "map" /\ last.i = 1
    /\ elem.kind = "Kicker" /\ elem.xkick # Zero
    /\ \A j \in DOMAIN pc : pc[j].px # pcSlice[j].px

---------------------------------------------------------------------------
\* properties of the dipole edge

\* C12: with the gap g = 0 the dipole edge applies the zero-gap kick
\* px' = px + (tan(psi)/rc)*x, py' = py - (tan(psi)/rc)*y, with no fringe term
\* in the vertical coefficient
C12_ZeroGapKick ==
    (last.op = "map" /\ last.elem.kind = "DipEdge" /\ last.elem.g = Zero) =>
        /\ pc[last.i].px =
               Add(last.p.px, Mul(Div(Tan(last.elem.psi), last.elem.rc), last.p.x))
        /\ pc[last.i].py =
               Sub(last.p.py, Mul(Div(Tan(last.elem.psi), last.elem.rc), last.p.y))

\* a zero-gap edge with tan(psi) = 1 and K2 # 0 kicked a particle off the axis
\* in both planes
C12_Witness ==
    /\ last.op = "map" /\ last.elem.kind = "DipEdge" /\ last.elem.g = Zero
    /\ last.elem.K2 # Zero /\ Tan(last.elem.psi) = One
    /\ last.p.x # Zero /\ last.p.y # Zero
    /\ pc[last.i].px # last.p.px /\ pc[last.i].py # last.p.py

\* C13: the dipole edge changes only px and py of a particle (x, y, t, pt and
\* the id stay), and its reference map changes no field of the reference
\* particle
C13_DipEdgeFrame ==
    /\ (last.op = "map" /\ last.elem.kind = "DipEdge") =>
           /\ pc[last.i].x = last.p.x /\ pc[last.i].y = last.p.y
           /\ pc[last.i].t = last.p.t /\ pc[last.i].pt = last.p.pt
           /\ pc[last.i].id = last.p.id
    /\ (last.op = "ref" /\ last.elem.kind = "DipEdge") => refpart = last.ref
    /\ (elem.kind = "DipEdge") => refpart = refElem

\* an edge with a gap kicked a particle vertically, after its reference map ran
\* on a reference particle that a bend had advanced
C13_Witness ==
    /\ last.op = "map" /\ last.elem.kind = "DipEdge" /\ last.elem.g # Zero
    /\ pc[last.i].py # last.p.py /\ pc[last.i].x # Zero
    /\ refpart.s # Zero /\ refpart = refElem

---------------------------------------------------------------------------
\* properties of the bends

\* C14: the CFbend particle map never divides by zero, whatever k and rc,
\* also where k + 1/rc^2 = 0 or -k = 0: no coordinate it computes for a
\* particle of the beam is the non-finite result of a division by zero
C14_CFbendNeverDividesByZero ==
    (phase = "push" /\ elem.kind = "CFbend") =>
        \A j \in todo : \A f \in PartFields :
            ParticleMap(elem, pc[j], refpart)[f] # NonFinite

\* the bend with the length and the angle of e negated
Counterpart(e) == [e EXCEPT !.ds = Neg(e.ds), !.phi = Neg(e.phi)]

\* C15: a sector bend (ds, phi) followed by its counterpart (-ds, -phi) returns
\* every particle to its x, y, t, px, py, pt and the reference particle to its
\* x, y, z, t, px, py, pz, pt and s
C15_BendThenCounterpart ==
    (phase = "idle" /\ last.op = "endslice" /\ elem.kind = "ExactSbend"
        /\ prev.elem.kind = "ExactSbend" /\ elem = Counterpart(prev.elem)) =>
        /\ \A j \in DOMAIN pc : \A f \in PartFields : pc[j][f] = prev.pc[j][f]
        /\ \A f \in {"x", "y", "z", "t", "px", "py", "pz", "pt", "s"} :
               refpart[f] = prev.ref[f]

\* the counterpart of a bend brought back the reference particle and a beam
\* with particles off the axis, one of which the bend had moved in y and one in t
C15_Witness ==
    /\ phase = "idle" /\ last.op = "endslice" /\ elem.kind = "ExactSbend"
    /\ prev.elem.kind = "ExactSbend" /\ elem = Counterpart(prev.elem)
    /\ \E j \in DOMAIN pc : pc[j].x # Zero /\ pcElem[j].y # pc[j].y
    /\ \E j \in DOMAIN pc : pc[j].x # Zero /\ pcElem[j].t # pc[j].t
    /\ refElem.s # refpart.s /\ refElem.px # refpart.px
    /\ pc = prev.pc /\ refpart = prev.ref

\* the bend e taken in a single step
SingleStep(e) == [e EXCEPT !.nslice = 1]

\* C16: an exact sector bend applied in nslice slices leaves every particle
\* with the x, y, t, px, py, pt that the same bend leaves it with in a single
\* step (nslice = 1), wherever the single step gives numbers of the model
C16_SlicingKeepsResult ==
    (phase = "idle" /\ last.op = "endslice" /\ elem.kind = "ExactSbend") =>
        \A j \in DOMAIN pc :
            PartRepresentable(ExactSbend_map(SingleStep(elem), pcElem[j], refElem)) =>
                \A f \in PartFields :
                    pc[j][f] = ExactSbend_map(SingleStep(elem), pcElem[j], refElem)[f]

---------------------------------------------------------------------------
\* properties of the particle container

\* C17: the particle shape is set exactly once: the first SetParticleShape
\* stores the order, which GetParticleShape then returns; a later call is a
\* fatal error and leaves the stored order as it was; nothing else changes it
C17_ShapeSetOnce ==
    [][ /\ (last'.op = "shape" /\ m_particle_shape = <<>>) =>
             (GetParticleShape' = last'.order /\ ~aborted')
        /\ (last'.op = "shape" /\ m_particle_shape # <<>>) =>
             (aborted' /\ m_particle_shape' = m_particle_shape)
        /\ (last'.op # "shape") => m_particle_shape' = m_particle_shape ]_vars

\* a second call, with another order, ended the run and left the order 2
C17_Witness ==
    /\ aborted /\ last.op = "shape" /\ last.order = 3
    /\ m_particle_shape # <<>> /\ GetParticleShape = 2

\* C18: AddNParticles before the grids exist is a fatal error: the run ends
\* there, no step follows, and no record is added; after the grids exist it
\* adds its n records
C18_AppendNeedsGrids ==
    [][ /\ ~aborted
        /\ (last'.op = "add" /\ ~grids) =>
             (aborted' /\ pc' = pc /\ appended' = appended)
        /\ (last'.op = "add" /\ grids) =>
             (~aborted' /\ Cardinality(DOMAIN pc') = Cardinality(DOMAIN pc) + last'.n) ]_vars

\* two particles were to be added to a container with a shape and a sink but
\* no grids: the run ended with the container empty
C18_Witness ==
    /\ aborted /\ last.op = "add" /\ last.n = 2 /\ ~grids
    /\ m_particle_shape # <<>> /\ m_particles_lost # nullptr
    /\ DOMAIN pc = {} /\ appended = 0

\* C19: GetLostParticleContainer returns the pointer last passed to
\* SetLostParticleContainer, and nullptr before any was; a sweep while no
\* container is registered copies no record anywhere and raises no error
C19_LostContainerReference ==
    /\ GetLostParticleContainer = sinkPassed
    /\ (last.op = "sweep" /\ last.sink = nullptr) => (lostpc = last.lostpc /\ ~aborted)

\* a sweep found a particle marked lost and no container registered
C19_Witness ==
    /\ last.op = "sweep" /\ last.sink = nullptr
    /\ \E i \in DOMAIN last.pc : last.pc[i].id < 0
    /\ \A c \in LostContainers : lostpc[c] = {}
    /\ GetLostParticleContainer = nullptr

\* C20: no record is dropped: the records of the container and of the
\* lost-particle containers together are as many as were appended
C20_NoRecordDropped ==
    Cardinality(DOMAIN pc) + Cardinality(UNION {lostpc[c] : c \in LostContainers})
        = appended

---------------------------------------------------------------------------
\* properties of the combined-function bend

\* sin(sqrt(|g|)*ds) where g > 0, sinh(sqrt(|g|)*ds) otherwise
PlaneSin(g, ds) ==
    IF Gt(g, Zero) THEN Sin(Mul(Sqrt(FAbs(g)), ds)) ELSE Sinh(Mul(Sqrt(FAbs(g)), ds))

\* cos(sqrt(|g|)*ds) where g > 0, cosh(sqrt(|g|)*ds) otherwise
PlaneCos(g, ds) ==
    IF Gt(g, Zero) THEN Cos(Mul(Sqrt(FAbs(g)), ds)) ELSE Cosh(Mul(Sqrt(FAbs(g)), ds))

\* the coefficient of the position in the new momentum: -sqrt(|g|) where
\* g > 0, +sqrt(|g|) otherwise
PlaneSign(g) == IF Gt(g, Zero) THEN Neg(Sqrt(FAbs(g))) ELSE Sqrt(FAbs(g))

\* gx = k + 1/rc^2 of a combined-function bend
NetFocusing(e) == Add(e.k, Div(One, Sq(e.rc)))

\* C24: the CFbend particle map takes x, px and t through the oscillatory
\* solution (sin, cos) exactly when gx = k + 1/rc^2 > 0 and through the
\* hyperbolic one (sinh, cosh) otherwise, and y and py through the oscillatory
\* solution exactly when gy = -k > 0 and the hyperbolic one otherwise, each
\* with the frequency sqrt(|g|)
C24_CFbendBranches ==
    (last.op = "call" /\ last.elem.kind = "CFbend") =>
        LET e == last.elem
            p == last.p
            o == last.out
            ds == Div(e.ds, Q(nslice(e), 1))
            gx == NetFocusing(e)
            gy == Neg(e.k)
            wx == Sqrt(FAbs(gx))
            wy == Sqrt(FAbs(gy))
            b == beta(last.ref)
            Sx == PlaneSin(gx, ds)
            Cx == PlaneCos(gx, ds)
            Sy == PlaneSin(gy, ds)
            Cy == PlaneCos(gy, ds)
            c1 == Div(Sub(One, Cx), Mul(Mul(gx, b), e.rc))
            c2 == Div(Sx, Mul(Mul(wx, b), e.rc))
        IN  /\ o.x = Sub(Add(Mul(Cx, p.x), Mul(Div(Sx, wx), p.px)), Mul(c1, p.pt))
            /\ o.px = Sub(Add(Mul(Mul(PlaneSign(gx), Sx), p.x), Mul(Cx, p.px)),
                          Mul(c2, p.pt))
            /\ o.y = Add(Mul(Cy, p.y), Mul(Div(Sy, wy), p.py))
            /\ o.py = Add(Mul(Mul(PlaneSign(gy), Sy), p.y), Mul(Cy, p.py))

\* a bend with gx < 0 and gy > 0 was called on a particle off the axis in
\* both planes: y and py went through a quarter of the vertical oscillation,
\* x left the numbers that sin and cos of the model give
C24_Witness ==
    /\ last.op = "call" /\ last.elem.kind = "CFbend"
    /\ Gt(Zero, NetFocusing(last.elem)) /\ Gt(Neg(last.elem.k), Zero)
    /\ last.p.x # Zero /\ last.p.y # Zero /\ last.p.py # Zero
    /\ ~Bad(last.out.y) /\ last.out.y # last.p.y
    /\ ~Bad(last.out.py) /\ last.out.py # last.p.py
    /\ last.out.x = NotRepresentable

\* length of a slice of the thick element e
SliceLength(e) == Div(e.ds, Q(nslice(e), 1))

\* calls that agree with the call c in y, py, k and the slice length
SameVertical(c) ==
    { i \in MapInputs :
        /\ i.elem.kind = "CFbend" /\ i.elem.k = c.elem.k
        /\ SliceLength(i.elem) = SliceLength(c.elem)
        /\ i.p.y = c.p.y /\ i.p.py = c.p.py }

\* calls that agree with the call c in everything but y and py
SameHorizontal(c) ==
    { i \in MapInputs :
        /\ i.elem = c.elem /\ i.ref = c.ref
        /\ [i.p EXCEPT !.y = c.p.y, !.py = c.p.py] = c.p }

\* C25: in the CFbend particle map the y and py of the result are a function
\* of the y and py of the particle, of k and of the slice length alone (not of
\* x, px, t, pt, rc or the reference particle), and the x, px and t of the
\* result do not depend on y and py
C25_CFbendPlanesIndependent ==
    (last.op = "call" /\ last.elem.kind = "CFbend") =>
        /\ \A i \in SameVertical(last) :
               /\ ParticleMap(i.elem, i.p, i.ref).y = last.out.y
               /\ ParticleMap(i.elem, i.p, i.ref).py = last.out.py
        /\ \A i \in SameHorizontal(last) :
               /\ ParticleMap(i.elem, i.p, i.ref).x = last.out.x
               /\ ParticleMap(i.elem, i.p, i.ref).px = last.out.px
               /\ ParticleMap(i.elem, i.p, i.ref).t = last.out.t

\* a bend of radius 2 moved the y and py of a particle off the axis and off
\* the reference energy as a bend of radius 1 and the same k moves them for
\* another x and another reference particle, and moved x, px and t of a
\* particle on the axis as it moves them for a particle with another y and py
C25_Witness ==
    /\ last.op = "call" /\ last.elem.kind = "CFbend" /\ last.elem.rc # One
    /\ ~Bad(last.out.y) /\ last.out.y # last.p.y
    /\ ~Bad(last.out.py) /\ last.out.py # last.p.py
    /\ \E i \in SameVertical(last) :
           /\ i.elem.rc = One /\ i.ref # last.ref
           /\ i.p.x # last.p.x /\ i.p.pt # last.p.pt
           /\ ParticleMap(i.elem, i.p, i.ref).x # last.out.x
    /\ \E i \in SameHorizontal(last) : i.p.y # last.p.y /\ i.p.py # last.p.py

---------------------------------------------------------------------------
\* properties of the RF cavity

\* beta*gamma of a reference particle of energy pt
BetaGamma(pt) == Sqrt(Sub(Sq(pt), One))

\* C26: the particle map of ShortRF runs after the reference map of the same
\* element: the initial reference energy it reconstructs, refpart.pt +
\* V cos(phase), is the pt the reference particle had before its map, and the
\* bgi and bgf it scales the transverse momenta by are beta*gamma of the
\* reference particle before and after its map
C26_ShortRFReconstructsInitialEnergy ==
    (last.op = "map" /\ last.elem.kind = "ShortRF") =>
        /\ Add(last.ref.pt, Mul(last.elem.V, CosDegrees(last.elem.phase))) = refElem.pt
        /\ last.ref.pt = refpart.pt
        /\ \A f \in {"px", "py"} :
               Mul(pc[last.i][f], BetaGamma(refpart.pt)) =
                   Mul(last.p[f], BetaGamma(refElem.pt))

\* a cavity that changed the energy of the reference particle scaled the
\* transverse momenta of a particle
C26_Witness ==
    /\ last.op = "map" /\ last.elem.kind = "ShortRF"
    /\ refElem.pt # refpart.pt
    /\ last.p.px # Zero /\ pc[last.i].px # last.p.px
    /\ last.p.py # Zero /\ pc[last.i].py # last.p.py

\* C27: the particle map of ShortRF multiplies px, py and pt by bgi, adds
\* -V cos(k t + phase) + V cos(phase) to pt alone, and divides the three by
\* bgf; x, y and t are unchanged; a particle at t = 0 receives no net kick,
\* pt' bgf = pt bgi
C27_ShortRFKick ==
    (last.op = "call" /\ last.elem.kind = "ShortRF") =>
        LET e == last.elem
            p == last.p
            o == last.out
            bgi == BetaGamma(Add(last.ref.pt, Mul(e.V, CosDegrees(e.phase))))
            bgf == BetaGamma(last.ref.pt)
            k == Mul(Div(<<0, 2, 1>>, <<SpeedOfLight, 0, 1>>), e.freq)
        IN  /\ o.x = p.x /\ o.y = p.y /\ o.t = p.t
            /\ Mul(o.px, bgf) = Mul(p.px, bgi)
            /\ Mul(o.py, bgf) = Mul(p.py, bgi)
            /\ Mul(o.pt, bgf) =
                   Add(Sub(Mul(p.pt, bgi),
                           Mul(e.V, Cos(Add(Mul(k, p.t), Mul(e.phase, degree2rad))))),
                       Mul(e.V, CosDegrees(e.phase)))
            /\ p.t = Zero => Mul(o.pt, bgf) = Mul(p.pt, bgi)

\* the particle got no net kick: pt' bgf = pt bgi
NoNetKick(e, p, r, o) ==
    Mul(o.pt, BetaGamma(r.pt)) =
        Mul(p.pt, BetaGamma(Add(r.pt, Mul(e.V, CosDegrees(e.phase)))))

\* a cavity off the zero crossing kicked the energy of a particle that arrived
\* off the reference time and scaled its horizontal momentum, and gives a
\* particle at t = 0 with an energy deviation no net kick
C27_Witness ==
    /\ last.op = "call" /\ last.elem.kind = "ShortRF"
    /\ CosDegrees(last.elem.phase) # Zero
    /\ last.p.t # Zero /\ last.p.px # Zero
    /\ ~Bad(last.out.pt) /\ ~Bad(last.out.px)
    /\ last.out.px # last.p.px
    /\ ~NoNetKick(last.elem, last.p, last.ref, last.out)
    /\ \E i \in MapShortRFInputs :
           /\ i.elem = last.elem /\ i.ref = last.ref
           /\ i.p.t = Zero /\ i.p.pt # Zero
           /\ ~Bad(ParticleMap(i.elem, i.p, i.ref).pt)
           /\ ParticleMap(i.elem, i.p, i.ref).pt # i.p.pt
           /\ NoNetKick(i.elem, i.p, i.ref, ParticleMap(i.elem, i.p, i.ref))

---------------------------------------------------------------------------
\* properties that hold across elements

\* C28: a particle marked lost (id < 0) stays marked lost under every further
\* particle map, a second aperture it is outside of included
C28_LostStaysLost ==
    (last.op = "map" /\ last.p.id < 0) => pc[last.i].id < 0

\* the phase-space coordinates of p are all zero
OnAxis(p) == \A f \in {"x", "y", "t", "px", "py", "pt"} : p[f] = Zero

\* C29: a particle on the reference trajectory (x = y = t = px = py = pt = 0)
\* is on it after each slice of an ExactSbend, for every nslice >= 1, without
\* (B = 0) and with a field
C29_OnAxisStaysOnAxis ==
    (last.op = "map" /\ last.elem.kind = "ExactSbend" /\ OnAxis(last.p)) =>
        OnAxis(pc[last.i])

\* dp/p as a function of pt: f = -1 + sqrt(1 - 2 pt / beta + pt^2)
MomentumDeviation(pt, b) ==
    Sub(Sqrt(Add(Sub(One, Div(Mul(Q(2, 1), pt), b)), Sq(pt))), One)

\* C30: the particle maps of Kicker, DipEdge, Aperture, ThinDipole, ExactSbend
\* and CFbend leave pt as it was, so that only a ShortRF changes the pt of a
\* particle; ThinDipole leaves x, y and py as they were and adds
\* -x theta / rc + theta f(pt) to px
C30_EnergyConserved ==
    last.op = "map" =>
        /\ pc[last.i].pt # last.p.pt => last.elem.kind = "ShortRF"
        /\ last.elem.kind = "ThinDipole" =>
               LET theta == Mul(last.elem.theta, degree2rad)
               IN  /\ pc[last.i].x = last.p.x
                   /\ pc[last.i].y = last.p.y
                   /\ pc[last.i].py = last.p.py
                   /\ pc[last.i].px =
                          Add(Sub(last.p.px, Div(Mul(last.p.x, theta), last.elem.rc)),
                              Mul(theta, MomentumDeviation(last.p.pt, beta(last.ref))))

\* a thin dipole kicked px and shifted t of a particle off the axis with an
\* energy deviation, and left its pt as it was
C30_Witness ==
    /\ last.op = "map" /\ last.elem.kind = "ThinDipole"
    /\ last.p.pt # Zero /\ last.p.x # Zero
    /\ MomentumDeviation(last.p.pt, beta(last.ref)) # Zero
    /\ pc[last.i].px # last.p.px /\ pc[last.i].t # last.p.t
    /\ pc[last.i].pt = last.p.pt

---------------------------------------------------------------------------
\* properties of the position statistics and of the charge deposition

\* the container c without the record i
Without(c, i) == [j \in DOMAIN c \ {i} |-> c[j]]

\* all that the two reductions return for the container c, with the variances
Statistics(c) ==
    <<MinAndMaxPositions(c), MeanAndStdPositions(c),
      [f \in {"x", "y", "t"} |-> VarPosition(c, f)]>>

\* C21: MinAndMaxPositions and MeanAndStdPositions reduce over the live
\* particles: a particle marked lost (id < 0) that is still stored adds to
\* none of min, max, mean and standard deviation, so that the statistics are
\* those of the container without it, before and after the sweep removes it
C21_StatisticsOverLiveParticles ==
    /\ (last.op = "map" /\ pc[last.i].id < 0) =>
           Statistics(pc) = Statistics(Without(pc, last.i))
    /\ (last.op = "sweep" /\ pc # last.pc) => Statistics(pc) = Statistics(last.pc)

\* an aperture marked lost one of the particles of a container, the statistics
\* of which are numbers and no longer those with the particle taken for live
C21_Witness ==
    /\ last.op = "map" /\ last.p.id > 0 /\ pc[last.i].id < 0
    /\ ReducedParticles(pc) # {}
    /\ \A f \in {"x", "y", "t"} : ~Bad(Sqrt(VarPosition(pc, f)))
    /\ MinAndMaxPositions(pc) # MinAndMaxPositions([pc EXCEPT ![last.i] = last.p])
    /\ MeanAndStdPositions(pc).x_mean
           # MeanAndStdPositions([pc EXCEPT ![last.i] = last.p]).x_mean

\* C22: DepositCharge is idempotent: it resets the grid before it deposits, so
\* that another call on the same particles, and a call on a grid of any other
\* values, leave the grid this call has left
C22_DepositChargeIdempotent ==
    last.op = "deposit" =>
        \A g \in {rho, last.rho, StaleGrid} :
            DepositCharge_grid(g, pc, GetParticleShape) = rho

\* a call found the grid as an earlier call on the same particles had left
\* it, with charge on it, and left it so
C22_Witness ==
    /\ last.op = "deposit"
    /\ last.rho = rho /\ rho # StaleGrid
    /\ DepositedParticles(pc) # {}
    /\ \E k \in Nodes : rho[k] # Zero

\* the least common denominator of the nodes of the grid g
CommonDenominator(g) ==
    LET lcm[k \in -1..4] ==
            IF k = -1 THEN 1
            ELSE (lcm[k - 1] \div GCD(lcm[k - 1], g[k][3])) * g[k][3]
    IN  lcm[4]

\* the sum of the grid g of rationals over its nodes, over the denominator D
SumOver(g, D) ==
    LET sum[k \in -1..4] ==
            IF k = -1 THEN 0 ELSE sum[k - 1] + g[k][1] * (D \div g[k][3])
    IN  Q(sum[4], D)

\* the sum of the grid g over its nodes
GridSum(g) ==
    IF \E k \in Nodes : Bad(g[k]) THEN NotRepresentable
    ELSE SumOver(g, CommonDenominator(g))

\* the sum of weight * elementary charge over the live particles of c
LiveCharge(c) ==
    LET sum[n \in 0..NPart] ==
            IF n = 0 THEN Zero
            ELSE IF n \in DOMAIN c /\ c[n].id > 0
                 THEN Add(sum[n - 1], Mul(c[n].w, q_e))
                 ELSE sum[n - 1]
    IN  sum[NPart]

\* C23: after DepositCharge on one box without ghost nodes the charge summed
\* over the nodes of the grid is the sum of weight * elementary charge over
\* the live particles of the container
C23_DepositedChargeIsLiveCharge ==
    last.op = "deposit" => GridSum(rho) = LiveCharge(pc)

\* a call deposited, on a grid that held other values, the charge of a
\* container that stores a live particle off the nodes and a lost one
C23_Witness ==
    /\ last.op = "deposit" /\ last.rho = StaleGrid
    /\ \E i \in DOMAIN pc : pc[i].id < 0
    /\ \E i \in DOMAIN pc : pc[i].id > 0 /\ Cardinality({k \in Nodes : rho[k] # Zero}) > 1
    /\ GridSum(rho) # Zero /\ ~Bad(GridSum(rho))

====
